---- MODULE Spec2Model ----
(***************************************************************************)
(* A state-machine model of the ray tracer's core: the concurrent render   *)
(* loop (lib.rs), the Group bounding-box cache and subdivision             *)
(* (geometry/group.rs), CSG filtering (geometry/csg.rs), hit selection     *)
(* (tuples/intersection.rs) and the World shading pipeline                 *)
(* (scene/world.rs).  Each subsystem has its own specification; the        *)
(* variables of the other subsystems stay at their idle values.            *)
(***************************************************************************)
EXTENDS Integers, Sequences, FiniteSets, TLC

VARIABLES
    \* ---- render (lib.rs) ----
    width,      \* camera.width()
    height,     \* camera.height()
    spawned,    \* index i of the spawn loop: threads 0..spawned-1 exist
    wx,         \* wx[i]: worker i's local x
    wy,         \* wy[i]: worker i's local y
    chan,       \* chan[i]: messages worker i sent that were not received yet
    canvas,     \* canvas[<<x, y>>]: the colour stored in the grid
    received,   \* index of the aggregator's recv loop
    joined,     \* index of the join loop: handles 0..joined-1 are joined
    sent,       \* history: sent[<<x, y>>] = number of sends of that coordinate
    renderPanic, \* the aggregator's write_pixel(..).unwrap() panicked
    \* ---- scene build and the Group tree (lib.rs, geometry/group.rs) ----
    phase,      \* "idle", "build" (before World::new) or "render"
    sceneKind,  \* "free": built by the model's calls; "build_world": lib.rs;
                \*   "handles": any shape held may be passed to add_child
    nodes,      \* nodes[n]: the shape with identity n: kind, children, parent,
                \*   bounds cache (<<>> is None, <<b>> is Some(b)), box
    divided,    \* divide has been called on the root group
    threshold,  \* the threshold divide was called with, 0 before the call
    workerWrites, \* history: <<worker, group>> for every cache write of a worker
    \* ---- CSG::filter_intersections (geometry/csg.rs) ----
    csgPc,      \* "idle", "decide", "toggle" or "done"
    csgOp,      \* self.operation
    csgLeft,    \* self.left: a shape of CsgShapes
    csgXs,      \* the intersections given: csgXs[j] is the object of the j-th
    csgI,       \* position of the for loop, 1-based
    csgInl,     \* inl
    csgInr,     \* inr
    csgLhit,    \* lhit of the current iteration
    csgAllowed, \* what intersection_allowed returned in the current iteration
    csgResult,  \* result: the positions in csgXs of the intersections pushed
    \* ---- Intersection::hit and World::is_shadowed ----
    hitPc,      \* "idle", "scan", "found", "none" or "done"
    hitXs,      \* intersections: hitXs[j] = [time, casts] of the shape hit
    hitI,       \* the index i of hit's loop, 0-based
    hitResult,  \* <<>> for None, <<i, casts_shadow>> for Some((i, casts_shadow))
    shDistance, \* is_shadowed: distance from the point to the light
    shadowed,   \* is_shadowed: the value returned
    \* ---- World::prepare_computations (scene/world.rs) ----
    prepPc,     \* "idle", "loop", "after" or "done"
    prepXs,     \* intersections: prepXs[j] is the shape of the j-th
    hitIndex,   \* hit_index, 0-based
    prepI,      \* the index i of the loop, 0-based
    containers, \* containers
    n1,         \* n1, in tenths
    n2,         \* n2, in tenths
    \* ---- World::color_at and the calls below it (scene/world.rs) ----
    stack,      \* the call stack: one frame per call that has not returned
    shLights,   \* self.lights.len()
    shBudget,   \* remaining of the outermost color_at call
    shResult,    \* "none", or what the outermost color_at returned
    \* ---- World::shade_hit: the blend of one hit (scene/world.rs) ----
    blPc,       \* "idle", "loop" or "done"
    blMat,      \* the hit material's reflective and transparency, in thousandths
    blComps,    \* comps: n1, n2 in tenths and dot(eyev, normalv) in thousandths
    blReflected, \* what reflected_color returns for comps
    blRefracted, \* what refracted_color returns for comps
    blLights,   \* self.lights.len()
    blI,        \* the index i of the loop over the lights
    blSurface,  \* surface of the last light dealt with
    blContribution, \* what the last light added to result, in thousandths
    blResult,    \* result, in thousandths
    blSurfaces, \* the surface colours light_material returned, light by light
    blCalls,    \* the calls of reflected_color (as many of refracted_color)
    \* ---- local_intersect of Group and CSG (geometry/group.rs, csg.rs) ----
    shapes,     \* shapes[s]: kind ("group", "csg" or "shape") and children
    boxHit,     \* the composites whose bounds() the ray, in their space, meets
    calls,      \* the intersect calls that have not returned, innermost last
    savedRay,   \* the shapes intersect was invoked on (TestShape's saved_ray)
    returned,    \* returned[s]: -1, or the length of the list s returned
    references, \* references[s][o]: the entries of the list s returned that hold o
    normalAt,   \* 0, or the object prepare_computations calls normal_at on
    \* ---- construction of shapes and the inverse of their transform ----
    built,      \* built[s]: kind and transform of the s-th shape constructed
    ctPc,       \* "idle", "build" or "render"
    unwrapPanic, \* an inverse().unwrap() panicked
    \* ---- ObjFileParser::parse_obj_file (scene/obj_file_parser.rs) ----
    objPc,      \* "idle", "lines", "ok" (Ok returned), "err" (Err returned), "panic"
    vertices,   \* self.vertices
    vertexNormals, \* self.vertex_normals
    groups,     \* self.groups: from names to the triangles of the group
    currentGroup, \* self.current_group
    lineNo,     \* the number of lines read
    lastLine,    \* history: the parameters of the line read last
    \* ---- World::intersect_world and color_at (scene/world.rs) ----
    iwPc,       \* "idle", "loop", "sort", "hit" or "done"
    iwObjects,  \* iwObjects[i]: what intersect returns on self.objects[i]
    iwI,        \* the index i of the loop over the objects, 0-based
    iwResult,   \* result
    iwHit,       \* <<>> for None, <<i>> for the index hit returned to color_at
    \* ---- concurrent bounds() calls on one tree (geometry/group.rs) ----
    tree,       \* the shapes, as nodes; the cache of a group is shared
    thCalls,    \* thCalls[t]: the bounds() calls of thread t that have not returned
    thReturned,  \* thReturned[t]: <<>>, or <<g, box>>: bounds() on g returned box
    \* ---- Group::local_intersect over cylinders (group.rs, cylinder.rs) ----
    goPc,       \* "idle", "test", "loop" or "done"
    goRay,      \* local_ray: origin (0, oy, oz) and direction (0, dy, dz)
    goChildren, \* self.children: cylinders with the identity transform
    goBoxHit,   \* self.bounds().intersects(local_ray)
    goI,        \* the position of the loop over the children, 0-based
    goResult,    \* result: times in halves, with the child they belong to
    \* ---- Cone::intersect_caps (cone.rs); lengths and times in halves ----
    cnPc,     \* "idle", "enter", "lower", "upper" or "done"
    cnCone,   \* self: minimum, maximum, closed
    cnRay,    \* ray: origin (ox, oy, oz) in halves, direction (dx, dy, 0)
    cnCaps,    \* intersections: the times pushed, in halves
    \* ---- Canvas::to_ppm (window/canvas.rs) ----
    ppPc,       \* "idle", "header", "row", "pixel" or "done"
    ppGrid,     \* self.grid: rows of pixels, a pixel is <<red, green, blue>>
    ppY,        \* y of the outer loop
    ppX,        \* x of the inner loop
    ppLineLen,  \* current_line_len
    ppOutput,    \* output: the characters written
    \* ---- Camera and its use by render (scene/camera.rs, lib.rs) ----
    camPc,      \* "idle", "new", "width", "height", "workers" or "done"
    camera,     \* the Camera: hsize and vsize
    camWidth,   \* render's width = camera.width()
    camHeight,  \* render's height = camera.height()
    camRays,    \* the <<px, py>> ray_for_pixel was asked for
    camCanvas   \* <<>>, or <<columns, rows>> of the canvas render makes

renderVars == <<width, height, spawned, wx, wy, chan, canvas, received, joined,
                sent, renderPanic>>

sceneVars == <<phase, sceneKind, nodes, divided, threshold, workerWrites>>

csgVars == <<csgPc, csgOp, csgLeft, csgXs, csgI, csgInl, csgInr, csgLhit,
             csgAllowed, csgResult>>

hitVars == <<hitPc, hitXs, hitI, hitResult, shDistance, shadowed>>

prepVars == <<prepPc, prepXs, hitIndex, prepI, containers, n1, n2>>

shadeVars == <<stack, shLights, shBudget, shResult>>

blendVars == <<blPc, blMat, blComps, blReflected, blRefracted, blLights, blI, blSurface, blContribution, blResult, blSurfaces, blCalls>>

compositeVars == <<shapes, boxHit, calls, savedRay, returned, references, normalAt>>

constructVars == <<built, ctPc, unwrapPanic>>

objVars == <<objPc, vertices, vertexNormals, groups, currentGroup, lineNo, lastLine>>

worldVars == <<iwPc, iwObjects, iwI, iwResult, iwHit>>

concurrentVars == <<tree, thCalls, thReturned>>

orderVars == <<goPc, goRay, goChildren, goBoxHit, goI, goResult>>

coneVars == <<cnPc, cnCone, cnRay, cnCaps>>

ppmVars == <<ppPc, ppGrid, ppY, ppX, ppLineLen, ppOutput>>

cameraVars == <<camPc, camera, camWidth, camHeight, camRays, camCanvas>>

vars == <<renderVars, sceneVars, csgVars, hitVars, prepVars, shadeVars,
         blendVars,
         compositeVars,
         constructVars,
         objVars,
         worldVars,
         concurrentVars,
         orderVars,
         coneVars,
         ppmVars,
         cameraVars>>

(***************************************************************************)
(* Bounds of the model                                                     *)
(***************************************************************************)
MaxSmallWidth == 4
MaxHeight == 2
MaxMessages == 13
MaxLeaves == 2
MaxXs == 4
MaxTime == 2
MaxHits == 3
MaxIntersections == 6
MaxRemaining == 2
MaxColor == 2
MaxShapes == 3
MaxLines == 4
MaxColumns == 8
MaxRows == 2

(***************************************************************************)
(* render: lib.rs                                                          *)
(***************************************************************************)
NUM_OF_THREADS == 12

Threads == 0 .. (NUM_OF_THREADS - 1)

Black == <<"black", 0, 0>>

\* color_at(ray_for_pixel(x, y)): the colour of the pixel's own ray, an opaque
\* value determined by the pixel.
ColorOfRay(x, y) == <<"ray", x, y>>

Pixels(w, h) == (0 .. (w - 1)) \X (0 .. (h - 1))

\* Number of messages worker i sends for a w x h image, by running its loop.
RECURSIVE LoopSends(_, _, _, _)
LoopSends(x, y, w, h) ==
    IF y < h
    THEN LET nx == x + NUM_OF_THREADS
         IN  1 + (IF nx >= w THEN LoopSends(nx % w, y + 1, w, h)
                            ELSE LoopSends(nx, y, w, h))
    ELSE 0

RECURSIVE SumSends(_, _, _)
SumSends(i, w, h) ==
    IF i = NUM_OF_THREADS THEN 0
    ELSE LoopSends(i % w, i \div w, w, h) + SumSends(i + 1, w, h)

\* The image widths the model renders: the widths up to MaxSmallWidth, below
\* the thread count, and the first width above it, at which a worker both stays
\* on its row (x + NUM_OF_THREADS < width) and wraps (x + NUM_OF_THREADS >= width).
Widths == (1 .. MaxSmallWidth) \cup {NUM_OF_THREADS + 1}

\* The images the model renders; MaxMessages caps the number of messages the
\* twelve workers send in total.
Dims == {d \in Widths \X (0 .. MaxHeight) :
            SumSends(0, d[1], d[2]) <= MaxMessages}

RenderIdle ==
    /\ width = 0 /\ height = 0 /\ spawned = 0 /\ received = 0 /\ joined = 0
    /\ wx = <<>> /\ wy = <<>> /\ chan = <<>> /\ canvas = <<>> /\ sent = <<>>
    /\ renderPanic = FALSE

SceneIdle ==
    /\ phase = "idle" /\ sceneKind = "free" /\ nodes = <<>> /\ divided = FALSE
    /\ threshold = 0
    /\ workerWrites = {}

CsgIdle ==
    /\ csgPc = "idle" /\ csgOp = "Union" /\ csgLeft = 0 /\ csgXs = <<>> /\ csgI = 0
    /\ csgInl = FALSE /\ csgInr = FALSE /\ csgLhit = FALSE /\ csgAllowed = FALSE
    /\ csgResult = <<>>

HitIdle ==
    /\ hitPc = "idle" /\ hitXs = <<>> /\ hitI = 0 /\ hitResult = <<>>
    /\ shDistance = 0 /\ shadowed = FALSE

PrepIdle ==
    /\ prepPc = "idle" /\ prepXs = <<>> /\ hitIndex = 0 /\ prepI = 0
    /\ containers = <<>> /\ n1 = 0 /\ n2 = 0

ShadeIdle ==
    /\ stack = <<>> /\ shLights = 0 /\ shBudget = 0 /\ shResult = "idle"

BlendIdle ==
    /\ blPc = "idle" /\ blMat = <<>> /\ blComps = <<>> /\ blReflected = 0
    /\ blRefracted = 0 /\ blLights = 0 /\ blI = 0 /\ blSurface = 0
    /\ blContribution = 0 /\ blResult = 0 /\ blSurfaces = <<>> /\ blCalls = 0

CompositeIdle ==
    /\ shapes = <<>> /\ boxHit = {} /\ calls = <<>> /\ savedRay = {}
    /\ returned = <<>> /\ references = <<>> /\ normalAt = 0

ConstructIdle ==
    /\ built = <<>> /\ ctPc = "idle" /\ unwrapPanic = FALSE

ObjIdle ==
    /\ objPc = "idle" /\ vertices = <<>> /\ vertexNormals = <<>> /\ groups = <<>>
    /\ currentGroup = "" /\ lineNo = 0 /\ lastLine = <<>>

WorldIdle ==
    /\ iwPc = "idle" /\ iwObjects = <<>> /\ iwI = 0 /\ iwResult = <<>>
    /\ iwHit = <<>>

ConcurrentIdle ==
    /\ tree = <<>> /\ thCalls = <<>> /\ thReturned = <<>>

OrderIdle ==
    /\ goPc = "idle" /\ goRay = <<>> /\ goChildren = <<>> /\ goBoxHit = FALSE
    /\ goI = 0 /\ goResult = <<>>

ConeIdle ==
    /\ cnPc = "idle" /\ cnCone = <<>> /\ cnRay = <<>> /\ cnCaps = <<>>

PpmIdle ==
    /\ ppPc = "idle" /\ ppGrid = <<>> /\ ppY = 0 /\ ppX = 0 /\ ppLineLen = 0
    /\ ppOutput = <<>>

CameraIdle ==
    /\ camPc = "idle" /\ camera = <<>> /\ camWidth = 0 /\ camHeight = 0
    /\ camRays = {} /\ camCanvas = <<>>

otherThanRender == <<sceneVars, csgVars, hitVars, prepVars, shadeVars,
    blendVars, compositeVars, constructVars, objVars, worldVars,
    concurrentVars, orderVars, coneVars, ppmVars, cameraVars>>
otherThanScene == <<renderVars, csgVars, hitVars, prepVars, shadeVars,
    blendVars, compositeVars, constructVars, objVars, worldVars,
    concurrentVars, orderVars, coneVars, ppmVars, cameraVars>>
otherThanCsg == <<renderVars, sceneVars, hitVars, prepVars, shadeVars,
    blendVars, compositeVars, constructVars, objVars, worldVars,
    concurrentVars, orderVars, coneVars, ppmVars, cameraVars>>
otherThanHit == <<renderVars, sceneVars, csgVars, prepVars, shadeVars,
    blendVars, compositeVars, constructVars, objVars, worldVars,
    concurrentVars, orderVars, coneVars, ppmVars, cameraVars>>
otherThanPrep == <<renderVars, sceneVars, csgVars, hitVars, shadeVars,
    blendVars, compositeVars, constructVars, objVars, worldVars,
    concurrentVars, orderVars, coneVars, ppmVars, cameraVars>>
otherThanShade == <<renderVars, sceneVars, csgVars, hitVars, prepVars,
    blendVars, compositeVars, constructVars, objVars, worldVars,
    concurrentVars, orderVars, coneVars, ppmVars, cameraVars>>
otherThanBlend == <<renderVars, sceneVars, csgVars, hitVars, prepVars,
    shadeVars, compositeVars, constructVars, objVars, worldVars,
    concurrentVars, orderVars, coneVars, ppmVars, cameraVars>>
otherThanComposite == <<renderVars, sceneVars, csgVars, hitVars, prepVars,
    shadeVars, blendVars, constructVars, objVars, worldVars, concurrentVars,
    orderVars, coneVars, ppmVars, cameraVars>>
otherThanConstruct == <<renderVars, sceneVars, csgVars, hitVars, prepVars,
    shadeVars, blendVars, compositeVars, objVars, worldVars, concurrentVars,
    orderVars, coneVars, ppmVars, cameraVars>>
otherThanObj == <<renderVars, sceneVars, csgVars, hitVars, prepVars,
    shadeVars, blendVars, compositeVars, constructVars, worldVars,
    concurrentVars, orderVars, coneVars, ppmVars, cameraVars>>
otherThanWorld == <<renderVars, sceneVars, csgVars, hitVars, prepVars,
    shadeVars, blendVars, compositeVars, constructVars, objVars,
    concurrentVars, orderVars, coneVars, ppmVars, cameraVars>>
otherThanConcurrent == <<renderVars, sceneVars, csgVars, hitVars, prepVars,
    shadeVars, blendVars, compositeVars, constructVars, objVars, worldVars,
    orderVars, coneVars, ppmVars, cameraVars>>
otherThanOrder == <<renderVars, sceneVars, csgVars, hitVars, prepVars,
    shadeVars, blendVars, compositeVars, constructVars, objVars, worldVars,
    concurrentVars, coneVars, ppmVars, cameraVars>>
otherThanCone == <<renderVars, sceneVars, csgVars, hitVars, prepVars,
    shadeVars, blendVars, compositeVars, constructVars, objVars, worldVars,
    concurrentVars, orderVars, ppmVars, cameraVars>>
otherThanPpm == <<renderVars, sceneVars, csgVars, hitVars, prepVars,
    shadeVars, blendVars, compositeVars, constructVars, objVars, worldVars,
    concurrentVars, orderVars, coneVars, cameraVars>>
otherThanCamera == <<renderVars, sceneVars, csgVars, hitVars, prepVars,
    shadeVars, blendVars, compositeVars, constructVars, objVars, worldVars,
    concurrentVars, orderVars, coneVars, ppmVars>>

IdleExceptRender == SceneIdle /\ CsgIdle /\ HitIdle /\ PrepIdle /\
    ShadeIdle /\ BlendIdle /\ CompositeIdle /\ ConstructIdle /\ ObjIdle /\
    WorldIdle /\ ConcurrentIdle /\ OrderIdle /\ ConeIdle /\ PpmIdle /\
    CameraIdle
IdleExceptScene == RenderIdle /\ CsgIdle /\ HitIdle /\ PrepIdle /\
    ShadeIdle /\ BlendIdle /\ CompositeIdle /\ ConstructIdle /\ ObjIdle /\
    WorldIdle /\ ConcurrentIdle /\ OrderIdle /\ ConeIdle /\ PpmIdle /\
    CameraIdle
IdleExceptCsg == RenderIdle /\ SceneIdle /\ HitIdle /\ PrepIdle /\
    ShadeIdle /\ BlendIdle /\ CompositeIdle /\ ConstructIdle /\ ObjIdle /\
    WorldIdle /\ ConcurrentIdle /\ OrderIdle /\ ConeIdle /\ PpmIdle /\
    CameraIdle
IdleExceptHit == RenderIdle /\ SceneIdle /\ CsgIdle /\ PrepIdle /\
    ShadeIdle /\ BlendIdle /\ CompositeIdle /\ ConstructIdle /\ ObjIdle /\
    WorldIdle /\ ConcurrentIdle /\ OrderIdle /\ ConeIdle /\ PpmIdle /\
    CameraIdle
IdleExceptPrep == RenderIdle /\ SceneIdle /\ CsgIdle /\ HitIdle /\
    ShadeIdle /\ BlendIdle /\ CompositeIdle /\ ConstructIdle /\ ObjIdle /\
    WorldIdle /\ ConcurrentIdle /\ OrderIdle /\ ConeIdle /\ PpmIdle /\
    CameraIdle
IdleExceptShade == RenderIdle /\ SceneIdle /\ CsgIdle /\ HitIdle /\
    PrepIdle /\ BlendIdle /\ CompositeIdle /\ ConstructIdle /\ ObjIdle /\
    WorldIdle /\ ConcurrentIdle /\ OrderIdle /\ ConeIdle /\ PpmIdle /\
    CameraIdle
IdleExceptBlend == RenderIdle /\ SceneIdle /\ CsgIdle /\ HitIdle /\
    PrepIdle /\ ShadeIdle /\ CompositeIdle /\ ConstructIdle /\ ObjIdle /\
    WorldIdle /\ ConcurrentIdle /\ OrderIdle /\ ConeIdle /\ PpmIdle /\
    CameraIdle
IdleExceptComposite == RenderIdle /\ SceneIdle /\ CsgIdle /\ HitIdle /\
    PrepIdle /\ ShadeIdle /\ BlendIdle /\ ConstructIdle /\ ObjIdle /\
    WorldIdle /\ ConcurrentIdle /\ OrderIdle /\ ConeIdle /\ PpmIdle /\
    CameraIdle
IdleExceptConstruct == RenderIdle /\ SceneIdle /\ CsgIdle /\ HitIdle /\
    PrepIdle /\ ShadeIdle /\ BlendIdle /\ CompositeIdle /\ ObjIdle /\
    WorldIdle /\ ConcurrentIdle /\ OrderIdle /\ ConeIdle /\ PpmIdle /\
    CameraIdle
IdleExceptObj == RenderIdle /\ SceneIdle /\ CsgIdle /\ HitIdle /\ PrepIdle /\
    ShadeIdle /\ BlendIdle /\ CompositeIdle /\ ConstructIdle /\ WorldIdle /\
    ConcurrentIdle /\ OrderIdle /\ ConeIdle /\ PpmIdle /\ CameraIdle
IdleExceptWorld == RenderIdle /\ SceneIdle /\ CsgIdle /\ HitIdle /\
    PrepIdle /\ ShadeIdle /\ BlendIdle /\ CompositeIdle /\ ConstructIdle /\
    ObjIdle /\ ConcurrentIdle /\ OrderIdle /\ ConeIdle /\ PpmIdle /\
    CameraIdle
IdleExceptConcurrent == RenderIdle /\ SceneIdle /\ CsgIdle /\ HitIdle /\
    PrepIdle /\ ShadeIdle /\ BlendIdle /\ CompositeIdle /\ ConstructIdle /\
    ObjIdle /\ WorldIdle /\ OrderIdle /\ ConeIdle /\ PpmIdle /\ CameraIdle
IdleExceptOrder == RenderIdle /\ SceneIdle /\ CsgIdle /\ HitIdle /\
    PrepIdle /\ ShadeIdle /\ BlendIdle /\ CompositeIdle /\ ConstructIdle /\
    ObjIdle /\ WorldIdle /\ ConcurrentIdle /\ ConeIdle /\ PpmIdle /\
    CameraIdle
IdleExceptCone == RenderIdle /\ SceneIdle /\ CsgIdle /\ HitIdle /\
    PrepIdle /\ ShadeIdle /\ BlendIdle /\ CompositeIdle /\ ConstructIdle /\
    ObjIdle /\ WorldIdle /\ ConcurrentIdle /\ OrderIdle /\ PpmIdle /\
    CameraIdle
IdleExceptPpm == RenderIdle /\ SceneIdle /\ CsgIdle /\ HitIdle /\ PrepIdle /\
    ShadeIdle /\ BlendIdle /\ CompositeIdle /\ ConstructIdle /\ ObjIdle /\
    WorldIdle /\ ConcurrentIdle /\ OrderIdle /\ ConeIdle /\ CameraIdle
IdleExceptCamera == RenderIdle /\ SceneIdle /\ CsgIdle /\ HitIdle /\
    PrepIdle /\ ShadeIdle /\ BlendIdle /\ CompositeIdle /\ ConstructIdle /\
    ObjIdle /\ WorldIdle /\ ConcurrentIdle /\ OrderIdle /\ ConeIdle /\ PpmIdle

InitRender ==
    /\ IdleExceptRender
    /\ \E d \in Dims : width = d[1] /\ height = d[2]
    /\ spawned = 0
    /\ wx = [i \in Threads |-> 0]
    /\ wy = [i \in Threads |-> 0]
    /\ chan = [i \in Threads |-> <<>>]
    /\ canvas = [p \in Pixels(width, height) |-> Black]
    /\ received = 0
    /\ joined = 0
    /\ sent = [p \in Pixels(width, height) |-> 0]
    /\ renderPanic = FALSE

\* lib.rs:94-95, the worker's first pixel
StartX(i, w) == i % w
StartY(i, w) == i \div w

NextXUnwrapped(x, w) == x + NUM_OF_THREADS

\* lib.rs:107-111, the worker's next pixel
NextX(x, w) == IF x + NUM_OF_THREADS >= w THEN (x + NUM_OF_THREADS) % w
               ELSE x + NUM_OF_THREADS
NextY(x, y, w) == IF x + NUM_OF_THREADS >= w THEN y + 1 ELSE y

\* a loop bound that is off by one
ExpectedOffByOne(w, h) == w * h + 1

\* lib.rs:121, the number of messages the aggregator waits for
Expected(w, h) == w * h

\* lib.rs:85-116: one iteration of the spawn loop
Spawn ==
    /\ ~renderPanic
    /\ spawned < NUM_OF_THREADS
    /\ wx' = [wx EXCEPT ![spawned] = StartX(spawned, width)]
    /\ wy' = [wy EXCEPT ![spawned] = StartY(spawned, width)]
    /\ spawned' = spawned + 1
    /\ UNCHANGED <<width, height, chan, canvas, received, joined, sent, renderPanic>>
    /\ UNCHANGED otherThanRender

\* lib.rs:98-112: one iteration of worker i's pixel loop
WorkerStep(i) ==
    /\ i < spawned
    /\ wy[i] < height
    /\ chan' = [chan EXCEPT ![i] =
                  Append(@, [x |-> wx[i], y |-> wy[i], color |-> ColorOfRay(wx[i], wy[i])])]
    /\ sent' = IF <<wx[i], wy[i]>> \in DOMAIN sent
               THEN [sent EXCEPT ![<<wx[i], wy[i]>>] = @ + 1]
               ELSE sent
    /\ wx' = [wx EXCEPT ![i] = NextX(wx[i], width)]
    /\ wy' = [wy EXCEPT ![i] = NextY(wx[i], wy[i], width)]
    /\ UNCHANGED <<width, height, spawned, canvas, received, joined, renderPanic>>
    /\ UNCHANGED otherThanRender

\* window/canvas.rs:22-24 with lib.rs:123-125
WritePixel(cv, m) ==
    IF m.x < width /\ m.y < height
    THEN [ok |-> TRUE, canvas |-> [cv EXCEPT ![<<m.x, m.y>>] = m.color]]
    ELSE [ok |-> FALSE, canvas |-> cv]

\* lib.rs:121-126: one iteration of the aggregator's loop; recv blocks while
\* the channel is empty
Recv(i) ==
    /\ ~renderPanic
    /\ spawned = NUM_OF_THREADS
    /\ received < Expected(width, height)
    /\ chan[i] # <<>>
    /\ LET w == WritePixel(canvas, Head(chan[i]))
       IN  /\ canvas' = w.canvas
           /\ renderPanic' = ~w.ok
    /\ chan' = [chan EXCEPT ![i] = Tail(@)]
    /\ received' = received + 1
    /\ UNCHANGED <<width, height, spawned, wx, wy, joined, sent>>
    /\ UNCHANGED otherThanRender

\* worker i has left its loop
Finished(i) == i < spawned /\ wy[i] >= height

\* lib.rs:128-130: one iteration of the join loop; join blocks until the
\* thread has finished
Join ==
    /\ ~renderPanic
    /\ spawned = NUM_OF_THREADS
    /\ received >= Expected(width, height)
    /\ joined < NUM_OF_THREADS
    /\ Finished(joined)
    /\ joined' = joined + 1
    /\ UNCHANGED <<width, height, spawned, wx, wy, chan, canvas, received, sent,
                   renderPanic>>
    /\ UNCHANGED otherThanRender

\* lib.rs:132: render returns the canvas
Returned == joined = NUM_OF_THREADS /\ ~renderPanic

NextRender ==
    \/ Spawn
    \/ \E i \in Threads : WorkerStep(i)
    \/ \E i \in Threads : Recv(i)
    \/ Join

SpecRender == InitRender /\ [][NextRender]_vars /\ WF_vars(NextRender)

\* Worker i's position in its loop, in the order the loop visits positions.
LexGE(i) == wy'[i] > wy[i] \/ (wy'[i] = wy[i] /\ wx'[i] >= wx[i])
LexGT(i) == wy'[i] > wy[i] \/ (wy'[i] = wy[i] /\ wx'[i] > wx[i])

\* A step moves no loop backwards and moves one of them forwards.
RenderProgress ==
    /\ spawned' >= spawned /\ received' >= received /\ joined' >= joined
    /\ \A i \in Threads : LexGE(i)
    /\ \/ spawned' > spawned \/ received' > received \/ joined' > joined
       \/ \E i \in Threads : LexGT(i)

\* Every loop of render is bounded.
RenderBounded ==
    /\ spawned <= NUM_OF_THREADS /\ joined <= NUM_OF_THREADS
    /\ received <= width * height
    /\ \A i \in Threads :
          /\ wx[i] < width
          /\ wy[i] <= height \/ wy[i] = StartY(i, width)

(* C1: render returns under every interleaving.  No reachable state short of
   the return leaves every thread blocked (the aggregator on recv or join, a
   worker on send), every step of any thread advances one of render's bounded
   loops and moves none backwards, and at the return the aggregator has
   received exactly width*height messages and every worker has left its loop
   and is joined. *)
C1_RenderReturns ==
    /\ [](Returned \/ ENABLED NextRender)
    /\ []RenderBounded
    /\ [][RenderProgress]_vars
    /\ [](Returned => /\ received = width * height
                      /\ \A i \in Threads : Finished(i))

\* render has returned an image wider than the number of threads
C1_Witness ==
    /\ Returned
    /\ height >= 1
    /\ width > NUM_OF_THREADS
    /\ received = width * height

(* C2: the coordinates the workers send are pairwise distinct and cover the
   image: when render returns, every (x, y) with x < width and y < height has
   been sent exactly once and the canvas holds the colour of its own ray. *)
C2_EachPixelSentOnce ==
    /\ \A p \in Pixels(width, height) : sent[p] <= 1
    /\ Returned =>
          \A p \in Pixels(width, height) :
              sent[p] = 1 /\ canvas[p] = ColorOfRay(p[1], p[2])

(***************************************************************************)
(* Bounding boxes: tuples/bounding_box.rs.  Coordinates are integers in    *)
(* units of 1/8; every coordinate of a shape is even, so that the midpoint *)
(* of a box of shapes is exact.                                            *)
(***************************************************************************)
Inf == 1000000
NaN == 2000000

Min2(a, b) == IF a <= b THEN a ELSE b
Max2(a, b) == IF a >= b THEN a ELSE b

Box(x0, y0, z0, x1, y1, z1) == [min |-> <<x0, y0, z0>>, max |-> <<x1, y1, z1>>]

\* bounding_box.rs:18-23
EmptyBox == Box(Inf, Inf, Inf, -Inf, -Inf, -Inf)

\* bounding_box.rs:25-39
AddPoint(b, p) ==
    [min |-> [k \in 1 .. 3 |-> Min2(b.min[k], p[k])],
     max |-> [k \in 1 .. 3 |-> Max2(b.max[k], p[k])]]

\* bounding_box.rs:135-141
BoxAdd(b, rhs) == AddPoint(AddPoint(b, rhs.min), rhs.max)

\* f64 arithmetic on the coordinates: the infinities of an empty or unbounded
\* box, and the NaN their sums produce, on which every comparison is false.
FSub(a, b) ==
    IF a = NaN \/ b = NaN THEN NaN
    ELSE IF a = Inf THEN (IF b = Inf THEN NaN ELSE Inf)
    ELSE IF a = -Inf THEN (IF b = -Inf THEN NaN ELSE -Inf)
    ELSE IF b = Inf THEN -Inf
    ELSE IF b = -Inf THEN Inf
    ELSE a - b

FAdd(a, b) ==
    IF a = NaN \/ b = NaN THEN NaN
    ELSE IF a = Inf THEN (IF b = -Inf THEN NaN ELSE Inf)
    ELSE IF a = -Inf THEN (IF b = Inf THEN NaN ELSE -Inf)
    ELSE IF b = Inf \/ b = -Inf THEN b
    ELSE a + b

FHalf(a) == IF a = NaN \/ a = Inf \/ a = -Inf THEN a ELSE a \div 2

FGe(a, b) == a # NaN /\ b # NaN /\ a >= b

\* bounding_box.rs:50-57
ContainsBox(b, other) ==
    \A k \in 1 .. 3 : FGe(other.min[k], b.min[k]) /\ FGe(b.max[k], other.max[k])

\* split_bounds (called at group.rs:86; its body is not among the sources):
\* two half-sized boxes along the longest axis, x before y before z.
SplitBounds(b) ==
    LET d == [k \in 1 .. 3 |-> FSub(b.max[k], b.min[k])]
        greatest == Max2(Max2(d[1], d[2]), d[3])
        axis == IF greatest = d[1] THEN 1 ELSE IF greatest = d[2] THEN 2 ELSE 3
        mid == FAdd(b.min[axis], FHalf(d[axis]))
    IN  [left  |-> [min |-> b.min, max |-> [b.max EXCEPT ![axis] = mid]],
         right |-> [min |-> [b.min EXCEPT ![axis] = mid], max |-> b.max]]

(***************************************************************************)
(* The Group tree: geometry/group.rs.  An operation on the tree takes the  *)
(* node table and returns the new one, with its result.                    *)
(***************************************************************************)
Root == 1

\* group.rs:26-36, Group::default()
NewGroup == [kind |-> "group", children |-> <<>>, parent |-> 0, cache |-> <<>>,
             box |-> EmptyBox]

\* a primitive whose bounds, transformed into its parent's space, are b
NewLeaf(b) == [kind |-> "leaf", children |-> <<>>, parent |-> 0, cache |-> <<>>,
               box |-> b]

IsGroup(ns, n) == ns[n].kind = "group"
GroupsOf(ns) == {n \in DOMAIN ns : IsGroup(ns, n)}
LeavesOf(ns) == {n \in DOMAIN ns : ~IsGroup(ns, n)}

AddChildInFront(ns, g, c) ==
    [ns EXCEPT ![c].parent = g, ![g].children = <<c>> \o @, ![g].cache = <<>>]

\* group.rs:56-63
AddChild(ns, g, c) ==
    [ns EXCEPT ![c].parent = g, ![g].children = Append(@, c), ![g].cache = <<>>]

\* group.rs:50-54
RECURSIVE AddChildren(_, _, _)
AddChildren(ns, g, cs) ==
    IF cs = <<>> THEN ns ELSE AddChildren(AddChild(ns, g, Head(cs)), g, Tail(cs))

\* group.rs:173-185 (bounds), group.rs:65-76 (find_bounds) and shape.rs:99-101;
\* for a CSG csg.rs:192-204 and csg.rs:83-85, over its left and right
\* (parent_space_bounds_of; a group made by Group::default() has the identity
\* transform).  Each returns [nodes, box]: bounds() fills the cache it finds
\* empty, and so do the calls find_bounds makes on the children.
RECURSIVE Bounds(_, _), FindBounds(_, _, _, _), ParentSpaceBoundsOf(_, _)
Bounds(ns, n) ==
    IF ns[n].kind = "leaf" THEN [nodes |-> ns, box |-> ns[n].box]
    ELSE IF ns[n].cache # <<>> THEN [nodes |-> ns, box |-> ns[n].cache[1]]
    ELSE LET r == FindBounds(ns, n, 1, EmptyBox)
         IN  [nodes |-> [r.nodes EXCEPT ![n].cache = <<r.box>>], box |-> r.box]

FindBounds(ns, n, i, result) ==
    IF i > Len(ns[n].children) THEN [nodes |-> ns, box |-> result]
    ELSE LET c == ParentSpaceBoundsOf(ns, ns[n].children[i])
         IN  FindBounds(c.nodes, n, i + 1, BoxAdd(result, c.box))

ParentSpaceBoundsOf(ns, n) == Bounds(ns, n)

\* group.rs:78-104: [nodes, left, right]
RECURSIVE Classify(_, _, _, _, _)
Classify(ns, cs, halves, i, acc) ==
    IF i > Len(cs) THEN [nodes |-> ns, left |-> acc.left, right |-> acc.right,
                         children |-> acc.children]
    ELSE LET c == ParentSpaceBoundsOf(ns, cs[i])
             acc2 == IF ContainsBox(halves.left, c.box)
                       THEN [acc EXCEPT !.left = Append(@, cs[i])]
                     ELSE IF ContainsBox(halves.right, c.box)
                       THEN [acc EXCEPT !.right = Append(@, cs[i])]
                     ELSE [acc EXCEPT !.children = Append(@, cs[i])]
         IN  Classify(c.nodes, cs, halves, i + 1, acc2)

PartitionCopies(ns, g) ==
    LET b == Bounds(ns, g)
        r == Classify(b.nodes, ns[g].children, SplitBounds(b.box), 1,
                      [left |-> <<>>, right |-> <<>>, children |-> <<>>])
    IN  [nodes |-> r.nodes, left |-> r.left, right |-> r.right]

PartitionChildren(ns, g) ==
    LET b == Bounds(ns, g)
        r == Classify(b.nodes, ns[g].children, SplitBounds(b.box), 1,
                      [left |-> <<>>, right |-> <<>>, children |-> <<>>])
    IN  [nodes |-> [r.nodes EXCEPT ![g].children = r.children],
         left |-> r.left, right |-> r.right]

MakeSubgroupAlways(ns, g, cs) ==
    LET subgroup == Len(ns) + 1
    IN  AddChild(AddChildren(Append(ns, NewGroup), subgroup, cs), g, subgroup)

\* group.rs:106-114
MakeSubgroup(ns, g, cs) ==
    IF cs = <<>> THEN ns
    ELSE LET subgroup == Len(ns) + 1
         IN  AddChild(AddChildren(Append(ns, NewGroup), subgroup, cs), g, subgroup)

DivideOnlyWhenFull(ns, n, t) ==
    IF IsGroup(ns, n) /\ t <= Len(ns[n].children)
    THEN LET p == PartitionChildren(ns, n)
         IN  MakeSubgroup(MakeSubgroup(p.nodes, n, p.left), n, p.right)
    ELSE ns

\* group.rs:189-209; a CSG divides its left and right (csg.rs:218-221) and a
\* primitive's divide does nothing
RECURSIVE Divide(_, _, _), DivideEach(_, _, _, _)
Divide(ns, n, t) ==
    IF ns[n].kind = "csg" THEN DivideEach(ns, ns[n].children, 1, t)
    ELSE IF ~IsGroup(ns, n) THEN ns
    ELSE LET ns1 == IF t <= Len(ns[n].children)
                    THEN LET p == PartitionChildren(ns, n)
                         IN  MakeSubgroup(MakeSubgroup(p.nodes, n, p.left), n, p.right)
                    ELSE ns
         IN  DivideEach(ns1, ns1[n].children, 1, t)

DivideEach(ns, cs, i, t) ==
    IF i > Len(cs) THEN ns
    ELSE DivideEach(Divide(ns, cs[i], t), cs, i + 1, t)

\* group.rs:126-147 with shape.rs:24-30: the ray meets the bounding boxes of the
\* groups in hits; a group whose box it meets intersects every child.
RECURSIVE Intersect(_, _, _), IntersectEach(_, _, _, _)
Intersect(ns, n, hits) ==
    IF ~IsGroup(ns, n) THEN ns
    ELSE LET b == Bounds(ns, n)
         IN  IF n \in hits THEN IntersectEach(b.nodes, b.nodes[n].children, 1, hits)
             ELSE b.nodes

IntersectEach(ns, cs, i, hits) ==
    IF i > Len(cs) THEN ns
    ELSE IntersectEach(Intersect(ns, cs[i], hits), cs, i + 1, hits)

(***************************************************************************)
(* Scene build and the workers' use of the tree: lib.rs:135-323 and        *)
(* scene/world.rs:55-68                                                    *)
(***************************************************************************)
\* The bounds of a unit cube or sphere under translation * scaling(s) *
\* scaling(0.5) * translation(1, -1, 1), lib.rs:180-185, in units of 1/8.
ShapeAt(tx, ty, tz, s) == Box(tx, ty - s, tz, tx + s, ty, tz + s)

\* lib.rs:204-304: the eighteen children of build_world's group
BuildWorldChildren ==
    << ShapeAt(0, 0, 0, 28),      ShapeAt(32, 0, 0, 24),    ShapeAt(68, 12, -4, 28),
       ShapeAt(0, 0, 32, 28),     ShapeAt(32, 0, 32, 16),   ShapeAt(60, 4, 32, 24),
       ShapeAt(-2, 2, 64, 24),    ShapeAt(32, 8, 60, 28),   ShapeAt(80, 16, 60, 24),
       ShapeAt(64, 16, 96, 16),   ShapeAt(160, 8, 72, 16),  ShapeAt(-4, -40, 2, 28),
       ShapeAt(32, -32, 0, 28),   ShapeAt(68, -32, 0, 28),  ShapeAt(0, -32, 32, 28),
       ShapeAt(-4, -36, 64, 28),  ShapeAt(0, -64, 32, 28),  ShapeAt(-4, 68, 64, 28) >>

\* lib.rs:202-306: the group after add_children
BuildWorldGroup ==
    LET n == Len(BuildWorldChildren)
        table == <<NewGroup>> \o [i \in 1 .. n |-> NewLeaf(BuildWorldChildren[i])]
    IN  AddChildren(table, Root, [i \in 1 .. n |-> i + 1])

\* The primitives of the model's own scenes: unit spheres at the translations
\* of the tests of group.rs:451-549, in units of 1/8.
Catalogue ==
    { Box(-8, -8, -8, 8, 8, 8),   Box(-24, -8, -8, -8, 8, 8),
      Box(8, 0, -8, 24, 16, 8),   Box(8, -16, -8, 24, 0, 8) }

InitScene ==
    /\ IdleExceptScene
    /\ phase = "build"
    /\ divided = FALSE
    /\ threshold = 0
    /\ workerWrites = {}
    /\ \/ sceneKind = "free" /\ nodes = <<NewGroup>>
       \/ sceneKind = "build_world" /\ nodes = BuildWorldGroup

\* a call of add_child with a new primitive
AddLeaf(g, b) ==
    /\ phase = "build"
    /\ sceneKind = "free"
    /\ ~divided
    /\ IsGroup(nodes, g)
    /\ Cardinality(LeavesOf(nodes)) < MaxLeaves
    /\ nodes' = AddChild(Append(nodes, NewLeaf(b)), g, Len(nodes) + 1)
    /\ UNCHANGED <<phase, sceneKind, divided, threshold, workerWrites>>
    /\ UNCHANGED otherThanScene

\* a call of add_child with a new, empty group: the scene's one nested group
AddGroup(g) ==
    /\ phase = "build"
    /\ sceneKind = "free"
    /\ ~divided
    /\ IsGroup(nodes, g)
    /\ GroupsOf(nodes) = {Root}
    /\ nodes' = AddChild(Append(nodes, NewGroup), g, Len(nodes) + 1)
    /\ UNCHANGED <<phase, sceneKind, divided, threshold, workerWrites>>
    /\ UNCHANGED otherThanScene

\* a call of bounds() while the scene is built
CallBounds(g) ==
    /\ phase = "build"
    /\ sceneKind = "free"
    /\ IsGroup(nodes, g)
    /\ nodes' = Bounds(nodes, g).nodes
    /\ UNCHANGED <<phase, sceneKind, divided, threshold, workerWrites>>
    /\ UNCHANGED otherThanScene

\* lib.rs:308: divide on the root group (build_world divides with threshold 1)
CallDivide(t) ==
    /\ phase = "build"
    /\ ~divided
    /\ sceneKind = "build_world" => t = 1
    /\ nodes' = Divide(nodes, Root, t)
    /\ divided' = TRUE
    /\ threshold' = t
    /\ UNCHANGED <<phase, sceneKind, workerWrites>>
    /\ UNCHANGED otherThanScene

\* lib.rs:310 and lib.rs:58: the World is built and shared with the workers
WorldNew ==
    /\ phase = "build"
    /\ sceneKind = "build_world" => divided
    /\ phase' = "render"
    /\ UNCHANGED <<sceneKind, nodes, divided, threshold, workerWrites>>
    /\ UNCHANGED otherThanScene

\* the two of the workers of lib.rs:85 that the scene specification follows
SceneWorkers == {0, 1}

\* the thresholds divide is called with: lib.rs:308 and group.rs:553-601
Thresholds == {1, 2, 3}

RECURSIVE PathTo(_, _)
PathTo(ns, n) == IF ns[n].parent = 0 THEN {n} ELSE {n} \cup PathTo(ns, ns[n].parent)

\* The sets of groups whose box one ray can meet: none, all, or those on the
\* way to one group.
HitSets(ns) == {{}, GroupsOf(ns)} \cup {PathTo(ns, g) : g \in GroupsOf(ns)}

\* lib.rs:103 -> world.rs:55-68: worker w intersects the world with one ray
WorkerIntersect(w, hits) ==
    /\ phase = "render"
    /\ LET after == Intersect(nodes, Root, hits)
       IN  /\ nodes' = after
           /\ workerWrites' = workerWrites \cup
                {<<w, g>> : g \in {n \in GroupsOf(nodes) : after[n].cache # nodes[n].cache}}
    /\ UNCHANGED <<phase, sceneKind, divided, threshold>>
    /\ UNCHANGED otherThanScene

NextScene ==
    \/ \E g \in DOMAIN nodes, b \in Catalogue : AddLeaf(g, b)
    \/ \E g \in DOMAIN nodes : AddGroup(g)
    \/ \E g \in DOMAIN nodes : CallBounds(g)
    \/ \E t \in Thresholds : CallDivide(t)
    \/ WorldNew
    \/ \E w \in SceneWorkers, hits \in HitSets(nodes) : WorkerIntersect(w, hits)

SpecScene == InitScene /\ [][NextScene]_vars

\* every group that can be reached from the root
RECURSIVE Reachable(_, _)
Reachable(ns, n) ==
    {n} \cup UNION {Reachable(ns, ns[n].children[i]) : i \in 1 .. Len(ns[n].children)}

(* C3: while the workers run, none of them writes state reachable from the
   shared World; for the scene of build_world every bounding-box cache a worker
   reads is filled before the first worker starts. *)
C3_WorkersOnlyRead ==
    (phase = "render" /\ sceneKind = "build_world") =>
        /\ workerWrites = {}
        /\ \A g \in Reachable(nodes, Root) : IsGroup(nodes, g) => nodes[g].cache # <<>>

(***************************************************************************)
(* CSG: geometry/csg.rs                                                    *)
(***************************************************************************)
Operations == {"Union", "Intersection", "Difference"}

\* The shapes of the CSG scenes: three primitives, and the CSG of 1 and 3 that
\* can stand as the left child (csg.rs:34-59).
CsgShapes ==
    << [kind |-> "prim", left |-> 0, right |-> 0],
       [kind |-> "prim", left |-> 0, right |-> 0],
       [kind |-> "prim", left |-> 0, right |-> 0],
       [kind |-> "csg",  left |-> 1, right |-> 3] >>

CsgPrims == {n \in DOMAIN CsgShapes : CsgShapes[n].kind = "prim"}

\* csg.rs:176-178 for a CSG, test_shape.rs:59-62 (Arc::ptr_eq) for a primitive
RECURSIVE Includes(_, _)
Includes(shape, other) ==
    IF CsgShapes[shape].kind = "csg"
    THEN Includes(CsgShapes[shape].left, other) \/ Includes(CsgShapes[shape].right, other)
    ELSE shape = other

UnionKeepsInsideLeft(op, lhit, inl, inr) ==
    CASE op = "Difference"   -> (lhit /\ ~inr) \/ (~lhit /\ inl)
      [] op = "Intersection" -> (lhit /\ inr) \/ (~lhit /\ inl)
      [] op = "Union"        -> (lhit /\ ~inr) \/ (~lhit /\ inl)

\* csg.rs:118-137
IntersectionAllowed(op, lhit, inl, inr) ==
    CASE op = "Difference"   -> (lhit /\ ~inr) \/ (~lhit /\ inl)
      [] op = "Intersection" -> (lhit /\ inr) \/ (~lhit /\ inl)
      [] op = "Union"        -> (lhit /\ ~inr) \/ (~lhit /\ ~inl)

ToggleAlways(flag, hit) == ~flag

ToggleNever(flag, hit) == flag

\* csg.rs:103-108: the flag of the side that was hit is flipped
Toggle(flag, hit) == IF hit THEN ~flag ELSE flag

RECURSIVE SeqsUpTo(_, _)
SeqsUpTo(S, n) ==
    IF n = 0 THEN {<<>>}
    ELSE LET shorter == SeqsUpTo(S, n - 1)
         IN  shorter \cup {Append(q, e) : q \in {r \in shorter : Len(r) = n - 1}, e \in S}

\* a call of filter_intersections on a CSG shape (csg.rs:87-93)
InitCsg ==
    /\ IdleExceptCsg
    /\ csgPc = "decide"
    /\ csgOp \in Operations
    /\ csgLeft \in {1, 4}
    /\ csgXs \in SeqsUpTo(CsgPrims, MaxXs)
    /\ csgI = 1
    /\ csgInl = FALSE /\ csgInr = FALSE
    /\ csgLhit = FALSE /\ csgAllowed = FALSE
    /\ csgResult = <<>>

\* csg.rs:95-101: lhit, the decision and the push
CsgDecide ==
    /\ csgPc = "decide"
    /\ csgI <= Len(csgXs)
    /\ LET lhit == Includes(csgLeft, csgXs[csgI])
           allowed == IntersectionAllowed(csgOp, lhit, csgInl, csgInr)
       IN  /\ csgLhit' = lhit
           /\ csgAllowed' = allowed
           /\ csgResult' = IF allowed THEN Append(csgResult, csgI) ELSE csgResult
    /\ csgPc' = "toggle"
    /\ UNCHANGED <<csgOp, csgLeft, csgXs, csgI, csgInl, csgInr>>
    /\ UNCHANGED otherThanCsg

\* csg.rs:103-108: the toggle, and the loop's step to the next intersection
CsgToggle ==
    /\ csgPc = "toggle"
    /\ csgInl' = Toggle(csgInl, csgLhit)
    /\ csgInr' = Toggle(csgInr, ~csgLhit)
    /\ csgI' = csgI + 1
    /\ csgPc' = "decide"
    /\ UNCHANGED <<csgOp, csgLeft, csgXs, csgLhit, csgAllowed, csgResult>>
    /\ UNCHANGED otherThanCsg

\* csg.rs:111: the loop is over and result is returned
CsgReturn ==
    /\ csgPc = "decide"
    /\ csgI > Len(csgXs)
    /\ csgPc' = "done"
    /\ UNCHANGED <<csgOp, csgLeft, csgXs, csgI, csgInl, csgInr, csgLhit, csgAllowed,
                   csgResult>>
    /\ UNCHANGED otherThanCsg

NextCsg == CsgDecide \/ CsgToggle \/ CsgReturn

SpecCsg == InitCsg /\ [][NextCsg]_vars

\* The truth tables of csg.rs:290-350: the <<lhit, inl, inr>> that are allowed.
AllowedTable ==
    [Union |-> {<<TRUE, TRUE, FALSE>>, <<TRUE, FALSE, FALSE>>,
                <<FALSE, FALSE, TRUE>>, <<FALSE, FALSE, FALSE>>},
     Intersection |-> {<<TRUE, TRUE, TRUE>>, <<TRUE, FALSE, TRUE>>,
                       <<FALSE, TRUE, TRUE>>, <<FALSE, TRUE, FALSE>>},
     Difference |-> {<<TRUE, TRUE, FALSE>>, <<TRUE, FALSE, FALSE>>,
                     <<FALSE, TRUE, TRUE>>, <<FALSE, TRUE, FALSE>>}]

(* C4: for every operation and every lhit, inl, inr, intersection_allowed
   returns what the claim's formula for the operation gives, which is the
   truth table of the tests: whenever filter_intersections has just decided,
   the decision is that value for the flags it was taken from. *)
C4_TruthTable ==
    /\ \A op \in Operations, lhit \in BOOLEAN, inl \in BOOLEAN, inr \in BOOLEAN :
          IntersectionAllowed(op, lhit, inl, inr) = (<<lhit, inl, inr>> \in AllowedTable[op])
    /\ csgPc = "toggle" =>
          /\ csgAllowed = (<<csgLhit, csgInl, csgInr>> \in AllowedTable[csgOp])
          /\ csgOp = "Union" =>
                (csgAllowed <=> ((csgLhit /\ ~csgInr) \/ (~csgLhit /\ ~csgInl)))
          /\ csgOp = "Intersection" =>
                (csgAllowed <=> ((csgLhit /\ csgInr) \/ (~csgLhit /\ csgInl)))
          /\ csgOp = "Difference" =>
                (csgAllowed <=> ((csgLhit /\ ~csgInr) \/ (~csgLhit /\ csgInl)))

\* a union has just rejected a hit on the right shape taken inside the left one
C4_Witness ==
    /\ csgPc = "toggle" /\ csgOp = "Union"
    /\ ~csgLhit /\ csgInl /\ ~csgAllowed

\* The positions before j at which the left (side = TRUE) or right subtree was hit.
HitsBefore(j, side) ==
    {k \in 1 .. (j - 1) : Includes(csgLeft, csgXs[k]) = side}

InsideBefore(j, side) == Cardinality(HitsBefore(j, side)) % 2 = 1

\* The positions before j whose intersection is kept.
KeptBefore(j) ==
    {k \in 1 .. (j - 1) :
        <<Includes(csgLeft, csgXs[k]), InsideBefore(k, TRUE), InsideBefore(k, FALSE)>>
            \in AllowedTable[csgOp]}

\* the positions the loop has dealt with
CsgDone == IF csgPc = "toggle" THEN csgI + 1 ELSE csgI

(* C5: filter_intersections starts with both flags false; at each intersection
   the flags are those of the intersections before it (inl is true iff the
   left subtree was hit an odd number of times before, inr likewise for the
   right), every intersection flips exactly the flag of its side whether or
   not it is kept, and the result is the kept intersections in input order. *)
C5_FilterWalk ==
    (csgPc # "idle") =>
        /\ csgInl = InsideBefore(csgI, TRUE)
        /\ csgInr = InsideBefore(csgI, FALSE)
        /\ {csgResult[k] : k \in DOMAIN csgResult} = KeptBefore(CsgDone)
        /\ Len(csgResult) = Cardinality(KeptBefore(CsgDone))
        /\ \A k \in 1 .. (Len(csgResult) - 1) : csgResult[k] < csgResult[k + 1]

\* the list s1, s2, s1, s2 of csg.rs:353-390 filtered by a difference: positions 1 and 2
C5_Witness ==
    /\ csgPc = "done" /\ csgOp = "Difference" /\ csgLeft = 1
    /\ csgXs = <<1, 2, 1, 2>>
    /\ csgResult = <<1, 2>>

(***************************************************************************)
(* Intersection::hit (tuples/intersection.rs) and World::is_shadowed       *)
(* (scene/world.rs).  Times and distances are integers.                    *)
(***************************************************************************)
Times == (-MaxTime) .. MaxTime

\* intersection.rs:19-25 with shape.rs:45: an intersection's time and whether
\* its shape casts a shadow
HitEntries == [time : Times, casts : BOOLEAN]

\* world.rs:63-65: intersect_world returns its list sorted ascending by time
SortedByTime(xs) == \A j \in 1 .. (Len(xs) - 1) : xs[j].time <= xs[j + 1].time

InFrontOrAtOrigin(t) == t >= 0

\* intersection.rs:35: intersect.time > 0.0
InFront(t) == t > 0

IgnoringCastsShadow(casts, t, distance) == t < distance

\* world.rs:318-322: the hit shadows the point
ShadowFrom(casts, t, distance) == IF casts THEN t < distance ELSE FALSE

\* world.rs:304-315: is_shadowed intersects the world with the ray to the light
InitHit ==
    /\ IdleExceptHit
    /\ hitPc = "scan"
    /\ hitXs \in {xs \in SeqsUpTo(HitEntries, MaxHits) : SortedByTime(xs)}
    /\ hitI = 0
    /\ hitResult = <<>>
    /\ shDistance \in 1 .. (MaxTime + 1)
    /\ shadowed = FALSE

\* intersection.rs:33-38: one iteration of hit's loop
HitScan ==
    /\ hitPc = "scan"
    /\ hitI < Len(hitXs)
    /\ LET intersect == hitXs[hitI + 1]
       IN  IF InFront(intersect.time)
           THEN /\ hitResult' = <<hitI, intersect.casts>>
                /\ hitPc' = "found"
                /\ UNCHANGED hitI
           ELSE /\ hitI' = hitI + 1
                /\ UNCHANGED <<hitResult, hitPc>>
    /\ UNCHANGED <<hitXs, shDistance, shadowed>>
    /\ UNCHANGED otherThanHit

\* intersection.rs:40: the loop ended without a hit
HitNone ==
    /\ hitPc = "scan"
    /\ hitI >= Len(hitXs)
    /\ hitPc' = "none"
    /\ UNCHANGED <<hitXs, hitI, hitResult, shDistance, shadowed>>
    /\ UNCHANGED otherThanHit

\* world.rs:316-325: is_shadowed's answer from hit's result
IsShadowed ==
    /\ hitPc \in {"found", "none"}
    /\ shadowed' = IF hitResult # <<>>
                   THEN ShadowFrom(hitResult[2], hitXs[hitResult[1] + 1].time, shDistance)
                   ELSE FALSE
    /\ hitPc' = "done"
    /\ UNCHANGED <<hitXs, hitI, hitResult, shDistance>>
    /\ UNCHANGED otherThanHit

NextHit == HitScan \/ HitNone \/ IsShadowed

SpecHit == InitHit /\ [][NextHit]_vars

\* the 1-based positions of the intersections in front of the ray's origin
Positive == {j \in 1 .. Len(hitXs) : hitXs[j].time > 0}

\* the first of them
Nearest == CHOOSE j \in Positive : \A k \in Positive : j <= k

(* C6: on a list sorted ascending by time, hit returns the index of the entry
   with the smallest time > 0 and that entry's casts_shadow flag; an entry with
   time <= 0 is never returned, and a list with no time > 0 gives None. *)
C6_HitIsNearestPositive ==
    (hitPc \in {"found", "none", "done"}) =>
        IF Positive = {}
        THEN hitResult = <<>>
        ELSE /\ hitResult = <<Nearest - 1, hitXs[Nearest].casts>>
             /\ hitXs[hitResult[1] + 1].time > 0
             /\ \A j \in Positive : hitXs[hitResult[1] + 1].time <= hitXs[j].time

\* hit has passed an intersection at time exactly 0 and returned a later one
C6_Witness ==
    /\ hitPc = "found"
    /\ hitResult # <<>> /\ hitResult[1] >= 1
    /\ hitXs[hitResult[1]].time = 0

(* C10: is_shadowed is true exactly when the ray toward the light has a hit,
   the hit's shape casts shadows and the hit's time is less than the distance
   to the light; a nearest hit that casts no shadow gives false even when a
   shadow-casting shape lies farther along the ray before the light. *)
C10_IsShadowed ==
    (hitPc = "done") =>
        /\ shadowed <=> /\ Positive # {}
                        /\ hitXs[Nearest].casts
                        /\ hitXs[Nearest].time < shDistance
        /\ (Positive # {} /\ ~hitXs[Nearest].casts) => ~shadowed

\* the nearest hit casts no shadow, a farther one before the light does
C10_Witness ==
    /\ hitPc = "done" /\ ~shadowed
    /\ Positive # {} /\ ~hitXs[Nearest].casts
    /\ \E j \in Positive : /\ j > Nearest /\ hitXs[j].casts
                           /\ hitXs[j].time > hitXs[Nearest].time
                           /\ hitXs[j].time < shDistance

(***************************************************************************)
(* World::prepare_computations: scene/world.rs:70-160.  Refractive indices *)
(* are integers in tenths.                                                 *)
(***************************************************************************)
\* world.rs:907-947: the glass spheres A, B and C of the test
GlassShapes == {1, 2, 3}

RefractiveIndex == <<15, 20, 25>>

\* world.rs:106 and 123: n = 1.0 when no shape contains the point
Vacuum == 10

\* world.rs:149-160: the position (1-based) of the shape in the list, 0 for None
ContainsObject(shape, list) ==
    IF \E k \in DOMAIN list : list[k] = shape
    THEN CHOOSE k \in DOMAIN list : list[k] = shape /\ \A j \in 1 .. (k - 1) : list[j] # shape
    ELSE 0

\* Vec::remove
RemoveAt(list, k) == SubSeq(list, 1, k - 1) \o SubSeq(list, k + 1, Len(list))

FirstIndex(list) ==
    IF list = <<>> THEN Vacuum ELSE RefractiveIndex[list[1]]

\* world.rs:104-110 and 121-125: the index of the last shape of the list
LastIndex(list) ==
    IF list = <<>> THEN Vacuum ELSE RefractiveIndex[list[Len(list)]]

\* world.rs:70-100: a call with a list of intersections and an index into it
InitPrep ==
    /\ IdleExceptPrep
    /\ prepPc = "loop"
    /\ prepXs \in SeqsUpTo(GlassShapes, MaxIntersections) \ {<<>>}
    /\ hitIndex \in 0 .. (Len(prepXs) - 1)
    /\ prepI = 0
    /\ containers = <<>>
    /\ n1 = 0
    /\ n2 = 0

\* world.rs:102-119: n1 at the hit, then the list is updated
PrepEnterOrExit ==
    /\ prepPc = "loop"
    /\ prepI < Len(prepXs)
    /\ n1' = IF prepI = hitIndex THEN LastIndex(containers) ELSE n1
    /\ LET shape == prepXs[prepI + 1]
           k == ContainsObject(shape, containers)
       IN  containers' = IF k # 0 THEN RemoveAt(containers, k) ELSE Append(containers, shape)
    /\ prepPc' = "after"
    /\ UNCHANGED <<prepXs, hitIndex, prepI, n2>>
    /\ UNCHANGED otherThanPrep

\* world.rs:121-129: n2 and the break at the hit, else the next intersection
PrepAfter ==
    /\ prepPc = "after"
    /\ IF prepI = hitIndex
       THEN /\ n2' = LastIndex(containers)
            /\ prepPc' = "done"
            /\ UNCHANGED prepI
       ELSE /\ prepI' = prepI + 1
            /\ prepPc' = "loop"
            /\ UNCHANGED n2
    /\ UNCHANGED <<prepXs, hitIndex, containers, n1>>
    /\ UNCHANGED otherThanPrep

NextPrep == PrepEnterOrExit \/ PrepAfter

SpecPrep == InitPrep /\ [][NextPrep]_vars

\* The shapes met an odd number of times among the first k intersections: the
\* shapes entered and not yet left.
OpenAfter(k) ==
    {s \in GlassShapes : Cardinality({j \in 1 .. k : prepXs[j] = s}) % 2 = 1}

\* where the shape was met last among the first k intersections
LastMet(s, k) == CHOOSE j \in 1 .. k : prepXs[j] = s /\ \A i \in (j + 1) .. k : prepXs[i] # s

\* The refractive index after the first k intersections: that of the open shape
\* entered last, vacuum if no shape is open.
IndexAfter(k) ==
    IF OpenAfter(k) = {} THEN Vacuum
    ELSE LET s == CHOOSE t \in OpenAfter(k) :
                     \A u \in OpenAfter(k) : LastMet(u, k) <= LastMet(t, k)
         IN  RefractiveIndex[s]

\* world.rs:951-980: the intersections of the test and the pairs it expects
NestedGlass == <<1, 2, 3, 2, 3, 1>>

NestedGlassPairs ==
    << <<10, 15>>, <<15, 20>>, <<20, 25>>, <<25, 25>>, <<25, 15>>, <<15, 10>> >>

(* C7: prepare_computations replays the intersections from the first, keeping
   the list of shapes entered and not left; n1 is the refractive index of the
   last shape of the list just before the intersection at hit_index is
   processed (1.0 for an empty list) and n2 the same just after; for
   A(1.5), B(2.0), C(2.5) met in the order A,B,C,B,C,A the pairs are
   (1,1.5),(1.5,2),(2,2.5),(2.5,2.5),(2.5,1.5),(1.5,1). *)
C7_RefractiveIndices ==
    /\ (prepPc \in {"loop", "after", "done"}) =>
          /\ Cardinality({containers[k] : k \in DOMAIN containers}) = Len(containers)
          /\ {containers[k] : k \in DOMAIN containers}
                = OpenAfter(IF prepPc = "loop" THEN prepI ELSE prepI + 1)
    /\ (prepPc = "done") =>
          /\ n1 = IndexAfter(hitIndex)
          /\ n2 = IndexAfter(hitIndex + 1)
          /\ prepXs = NestedGlass => <<n1, n2>> = NestedGlassPairs[hitIndex + 1]

\* the fourth intersection of the nested spheres: leaving B while inside C
C7_Witness ==
    /\ prepPc = "done" /\ prepXs = NestedGlass /\ hitIndex = 3
    /\ n1 = 25 /\ n2 = 25

(***************************************************************************)
(* World::color_at, shade_hit, reflected_color and refracted_color:        *)
(* scene/world.rs:162-275.  The calls are followed on an explicit stack.   *)
(* Coefficients are integers in units of half an EPSILON.                  *)
(***************************************************************************)
\* lib.rs:22, in units of 0.000005
EPSILON == 2

\* the coefficient 1.0
One == 200000

\* What a hit gives the calls below it: the material's coefficients and whether
\* the refracted ray meets total internal reflection (world.rs:255-263).
\* Matte, nearly matte, a mirror at exactly EPSILON, glass, glass under total
\* internal reflection, and a reflective glass.
Materials ==
    << [reflective |-> 0,       transparency |-> 0,   tir |-> FALSE],
       [reflective |-> 1,       transparency |-> -1,  tir |-> FALSE],
       [reflective |-> EPSILON, transparency |-> 0,   tir |-> FALSE],
       [reflective |-> 0,       transparency |-> One, tir |-> FALSE],
       [reflective |-> 0,       transparency |-> One, tir |-> TRUE],
       [reflective |-> One,     transparency |-> One, tir |-> FALSE] >>

Abs(a) == IF a < 0 THEN -a ELSE a

OnlyExactZero(c) == c = 0

\* world.rs:222 and 242: (c - 0.0).abs() < EPSILON
WithinEpsilon(c) == Abs(c - 0) < EPSILON

\* usize::MAX, what remaining - 1 wraps to at 0 in a build without overflow checks
Wrapped == 2147483647

SameBudget(remaining) == remaining

\* world.rs:228 and 274: remaining - 1 on a usize
DecrementUsize(remaining) == IF remaining = 0 THEN Wrapped ELSE remaining - 1

Frame(fn, remaining, mat) ==
    [fn |-> fn, remaining |-> remaining, mat |-> mat, light |-> 0,
     stage |-> "enter", value |-> "none", called |-> FALSE,
     reflected |-> "none", reflCalled |-> FALSE,
     refracted |-> "none", refrCalled |-> FALSE]

Top == stack[Len(stack)]

Push(caller, callee) == Append(SubSeq(stack, 1, Len(stack) - 1), caller) \o <<callee>>

\* The caller's frame once the call it waits for has returned v; called tells
\* whether the callee called color_at.
Deliver(caller, v, called) ==
    CASE caller.fn = "color_at" -> [caller EXCEPT !.stage = "shaded", !.value = v]
      [] caller.fn = "shade_hit" /\ caller.stage = "reflect" ->
            [caller EXCEPT !.stage = "refract", !.reflected = v, !.reflCalled = called]
      [] caller.fn = "shade_hit" /\ caller.stage = "refract" ->
            [caller EXCEPT !.stage = "blend", !.refracted = v, !.refrCalled = called]
      [] OTHER -> [caller EXCEPT !.stage = "scale", !.value = v]

\* the top frame returns v
Return(v) ==
    IF Len(stack) = 1
    THEN /\ stack' = <<>>
         /\ shResult' = v
    ELSE /\ stack' = Append(SubSeq(stack, 1, Len(stack) - 2),
                            Deliver(stack[Len(stack) - 1], v, Top.called))
         /\ UNCHANGED shResult

\* The numbers of lights of a world: none, the one of the tests' default world
\* and the two of build_world.
LightCounts == {0, 1, 2}

\* lib.rs:103: a call of color_at on a world
InitShade ==
    /\ IdleExceptShade
    /\ shBudget \in 0 .. MaxRemaining
    /\ shLights \in LightCounts
    /\ stack = <<Frame("color_at", shBudget, 0)>>
    /\ shResult = "none"

\* world.rs:200-211: the ray hits nothing
ColorAtMiss ==
    /\ stack # <<>> /\ Top.fn = "color_at" /\ Top.stage = "enter"
    /\ Return("black")
    /\ UNCHANGED <<shLights, shBudget>>
    /\ UNCHANGED otherThanShade

\* world.rs:200-208: the ray hits a shape; prepare_computations, then shade_hit
ColorAtHit(mat) ==
    /\ stack # <<>> /\ Top.fn = "color_at" /\ Top.stage = "enter"
    /\ LET callee == [Frame("shade_hit", Top.remaining, mat) EXCEPT
                        !.stage = IF shLights = 0 THEN "result" ELSE "reflect"]
       IN  stack' = Push([Top EXCEPT !.stage = "shade", !.mat = mat], callee)
    /\ UNCHANGED <<shLights, shBudget, shResult>>
    /\ UNCHANGED otherThanShade

\* world.rs:208: color_at returns what shade_hit returned
ColorAtReturn ==
    /\ stack # <<>> /\ Top.fn = "color_at" /\ Top.stage = "shaded"
    /\ Return(Top.value)
    /\ UNCHANGED <<shLights, shBudget>>
    /\ UNCHANGED otherThanShade

\* world.rs:165-180: is_shadowed and light_material, then reflected_color
ShadeCallReflected ==
    /\ stack # <<>> /\ Top.fn = "shade_hit" /\ Top.stage = "reflect"
    /\ stack' = Push(Top, Frame("reflected_color", Top.remaining, Top.mat))
    /\ UNCHANGED <<shLights, shBudget, shResult>>
    /\ UNCHANGED otherThanShade

\* world.rs:181
ShadeCallRefracted ==
    /\ stack # <<>> /\ Top.fn = "shade_hit" /\ Top.stage = "refract"
    /\ stack' = Push(Top, Frame("refracted_color", Top.remaining, Top.mat))
    /\ UNCHANGED <<shLights, shBudget, shResult>>
    /\ UNCHANGED otherThanShade

\* world.rs:183-192: the light's share is added and the loop goes on
ShadeBlend ==
    /\ stack # <<>> /\ Top.fn = "shade_hit" /\ Top.stage = "blend"
    /\ stack' = [stack EXCEPT ![Len(stack)] =
                    [Top EXCEPT !.light = Top.light + 1,
                                !.value = "color",
                                !.stage = IF Top.light + 1 < shLights
                                          THEN "reflect" ELSE "result"]]
    /\ UNCHANGED <<shLights, shBudget, shResult>>
    /\ UNCHANGED otherThanShade

\* world.rs:195: result, black when the world has no light
ShadeReturn ==
    /\ stack # <<>> /\ Top.fn = "shade_hit" /\ Top.stage = "result"
    /\ Return(IF Top.value = "none" THEN "black" ELSE Top.value)
    /\ UNCHANGED <<shLights, shBudget>>
    /\ UNCHANGED otherThanShade

\* world.rs:216-224
ReflectedBlack ==
    /\ stack # <<>> /\ Top.fn = "reflected_color" /\ Top.stage = "enter"
    /\ Top.remaining = 0 \/ WithinEpsilon(Materials[Top.mat].reflective)
    /\ Return("black")
    /\ UNCHANGED <<shLights, shBudget>>
    /\ UNCHANGED otherThanShade

\* world.rs:227-228: color_at on the reflected ray
ReflectedRecurse ==
    /\ stack # <<>> /\ Top.fn = "reflected_color" /\ Top.stage = "enter"
    /\ ~(Top.remaining = 0 \/ WithinEpsilon(Materials[Top.mat].reflective))
    /\ stack' = Push([Top EXCEPT !.stage = "call", !.called = TRUE],
                     Frame("color_at", DecrementUsize(Top.remaining), 0))
    /\ UNCHANGED <<shLights, shBudget, shResult>>
    /\ UNCHANGED otherThanShade

\* world.rs:235-263: no budget, an opaque material or total internal reflection
RefractedBlack ==
    /\ stack # <<>> /\ Top.fn = "refracted_color" /\ Top.stage = "enter"
    /\ \/ Top.remaining = 0
       \/ WithinEpsilon(Materials[Top.mat].transparency)
       \/ Materials[Top.mat].tir
    /\ Return("black")
    /\ UNCHANGED <<shLights, shBudget>>
    /\ UNCHANGED otherThanShade

\* world.rs:265-274: color_at on the refracted ray
RefractedRecurse ==
    /\ stack # <<>> /\ Top.fn = "refracted_color" /\ Top.stage = "enter"
    /\ ~(\/ Top.remaining = 0
         \/ WithinEpsilon(Materials[Top.mat].transparency)
         \/ Materials[Top.mat].tir)
    /\ stack' = Push([Top EXCEPT !.stage = "call", !.called = TRUE],
                     Frame("color_at", DecrementUsize(Top.remaining), 0))
    /\ UNCHANGED <<shLights, shBudget, shResult>>
    /\ UNCHANGED otherThanShade

\* world.rs:230 and 274: the colour times the coefficient
ScaledReturn ==
    /\ stack # <<>> /\ Top.fn \in {"reflected_color", "refracted_color"}
    /\ Top.stage = "scale"
    /\ Return(Top.value)
    /\ UNCHANGED <<shLights, shBudget>>
    /\ UNCHANGED otherThanShade

NextShade ==
    \/ ColorAtMiss
    \/ \E mat \in DOMAIN Materials : ColorAtHit(mat)
    \/ ColorAtReturn
    \/ ShadeCallReflected
    \/ ShadeCallRefracted
    \/ ShadeBlend
    \/ ShadeReturn
    \/ ReflectedBlack
    \/ ReflectedRecurse
    \/ RefractedBlack
    \/ RefractedRecurse
    \/ ScaledReturn

SpecShade == InitShade /\ [][NextShade]_vars /\ WF_vars(NextShade)

\* the frames of the stack that are calls of color_at
ColorAtFrames == {j \in DOMAIN stack : stack[j].fn = "color_at"}

(* C8: reflected_color and refracted_color return black without calling
   color_at whenever remaining is 0, and whenever the material's reflective
   (respectively transparency) coefficient is within EPSILON of 0: no color_at
   call is made from such a call, and shade_hit receives black from it. *)
C8_BlackWithoutColorAt ==
    \A j \in DOMAIN stack :
        LET f == stack[j]
            m == Materials[f.mat]
        IN  /\ (/\ f.fn = "shade_hit" /\ f.stage \in {"refract", "blend"}
                /\ (f.remaining = 0 \/ Abs(m.reflective) < EPSILON))
                  => (f.reflected = "black" /\ ~f.reflCalled)
            /\ (/\ f.fn = "shade_hit" /\ f.stage = "blend"
                /\ (f.remaining = 0 \/ Abs(m.transparency) < EPSILON))
                  => (f.refracted = "black" /\ ~f.refrCalled)
            /\ (f.fn = "reflected_color" /\ j < Len(stack))
                  => (f.remaining # 0 /\ Abs(m.reflective) >= EPSILON)
            /\ (f.fn = "refracted_color" /\ j < Len(stack))
                  => (f.remaining # 0 /\ Abs(m.transparency) >= EPSILON)

\* Below another hit, a reflective glass was hit with no budget left, and both of
\* its calls returned black without a call of color_at.
C8_Witness ==
    /\ Len(stack) > 2
    /\ Top.fn = "shade_hit" /\ Top.stage = "blend"
    /\ Top.remaining = 0
    /\ Materials[Top.mat].reflective = One /\ Materials[Top.mat].transparency = One
    /\ Top.reflected = "black" /\ ~Top.reflCalled
    /\ Top.refracted = "black" /\ ~Top.refrCalled

\* The budgets along the stack: a color_at called through reflected_color or
\* refracted_color has one less than its caller, the other calls pass theirs on.
BudgetsDescend ==
    /\ \A j \in DOMAIN stack : stack[j].remaining >= 0 /\ stack[j].remaining <= shBudget
    /\ \A j \in 2 .. Len(stack) :
          IF stack[j].fn = "color_at"
          THEN /\ stack[j - 1].fn \in {"reflected_color", "refracted_color"}
               /\ stack[j - 1].remaining >= 1
               /\ stack[j].remaining = stack[j - 1].remaining - 1
          ELSE stack[j].remaining = stack[j - 1].remaining
    /\ Cardinality(ColorAtFrames) <= shBudget + 1

(* C9: color_at terminates whatever the scene answers, mirrors facing each
   other and nested transparent shapes included: every color_at called through
   reflected_color or refracted_color has a budget exactly one smaller than
   its caller's, the budget is never taken below 0, and at most remaining + 1
   calls of color_at are nested. *)
C9_ColorAtTerminates ==
    /\ []BudgetsDescend
    /\ <>(shResult # "none")

\* the deepest nesting: budget + 1 calls of color_at, the innermost with budget 0
C9_Witness ==
    /\ shBudget >= 2
    /\ Cardinality(ColorAtFrames) = shBudget + 1
    /\ Top.fn = "color_at" /\ Top.remaining = 0

(***************************************************************************)
(* World::shade_hit and World::schlick: scene/world.rs:162-196, 279-302.   *)
(* Colours are integers (one channel); coefficients, cosines, reflectances *)
(* and the sums of weighted colours are in thousandths.                    *)
(***************************************************************************)
\* 1.0 in thousandths
Unit == 1000

\* reflective() and transparency() of a material: negative, 0, small, a half
BlendCoefficients == {-500, 0, 1, 500}

\* The n1, n2 and dot(eyev, normalv) of a hit: vacuum and glass on either side,
\* seen at grazing incidence, at cos = 0.8 and perpendicularly.
BlendComps == [n1 : {10, 15}, n2 : {10, 15}, cos : {0, 800, Unit}]

\* f64::cos of an argument in thousandths, for the arguments that occur
CosRadians(x) == CASE x = 1000 -> 540 [] x = 190 -> 982 [] OTHER -> Unit

\* f64::sqrt of an argument in thousandths, for the arguments that occur
Sqrt(x) == CASE x = 1000 -> 1000 [] x = 190 -> 436 [] OTHER -> 0

\* x.powi(5) in thousandths
Powi5(x) ==
    LET p2 == (x * x) \div Unit
        p4 == (p2 * p2) \div Unit
    IN  (p4 * x) \div Unit

\* (n1/n2)^2 * (1 - cos^2), in thousandths
Sin2T(c) == (c.n1 * c.n1 * (Unit * Unit - c.cos * c.cos)) \div (c.n2 * c.n2 * Unit)

\* ((n1 - n2) / (n1 + n2))^2, in thousandths
R0(c) == ((c.n1 - c.n2) * (c.n1 - c.n2) * Unit) \div ((c.n1 + c.n2) * (c.n1 + c.n2))

\* world.rs:279-302
Schlick(c) ==
    IF c.n1 > c.n2 /\ Sin2T(c) > Unit THEN Unit
    ELSE LET cos == IF c.n1 > c.n2 THEN CosRadians(Unit - Sin2T(c)) ELSE c.cos
         IN  R0(c) + ((Unit - R0(c)) * Powi5(Unit - cos)) \div Unit

\* world.rs:183: material.reflective() > 0.0 && material.transparency() > 0.0
UsesSchlick(mat) == mat.reflective > 0 /\ mat.transparency > 0

\* world.rs:183-192: what one light adds to result
Contribution(mat, c, surface, reflected, refracted) ==
    IF UsesSchlick(mat)
    THEN LET reflectance == Schlick(c)
         IN  Unit * surface + reflected * reflectance + refracted * (Unit - reflectance)
    ELSE Unit * (surface + reflected + refracted)

Colors == 0 .. MaxColor

\* world.rs:162-163: a call of shade_hit
InitBlend ==
    /\ IdleExceptBlend
    /\ blPc = "loop"
    /\ blMat \in [reflective : BlendCoefficients, transparency : BlendCoefficients]
    /\ blComps \in BlendComps
    /\ blReflected \in Colors
    /\ blRefracted \in Colors
    /\ blLights \in {0, 1, 2}
    /\ blI = 0
    /\ blSurface = 0
    /\ blContribution = 0
    /\ blResult = 0
    /\ blSurfaces = <<>>
    /\ blCalls = 0

\* world.rs:165-193: one light
BlendLight(surface) ==
    /\ blPc = "loop"
    /\ blI < blLights
    /\ blSurface' = surface
    /\ blContribution' = Contribution(blMat, blComps, surface, blReflected, blRefracted)
    /\ blResult' = blResult + blContribution'
    /\ blI' = blI + 1
    /\ blSurfaces' = Append(blSurfaces, surface)
    /\ blCalls' = blCalls + 1
    /\ UNCHANGED <<blPc, blMat, blComps, blReflected, blRefracted, blLights>>
    /\ UNCHANGED otherThanBlend

\* world.rs:195
BlendReturn ==
    /\ blPc = "loop"
    /\ blI >= blLights
    /\ blPc' = "done"
    /\ UNCHANGED <<blMat, blComps, blReflected, blRefracted, blLights, blI, blSurface,
                   blContribution, blResult, blSurfaces, blCalls>>
    /\ UNCHANGED otherThanBlend

NextBlend == (\E surface \in Colors : BlendLight(surface)) \/ BlendReturn

SpecBlend == InitBlend /\ [][NextBlend]_vars

\* The Schlick reflectance r0 + (1 - r0)(1 - cos)^5, with the cosine of the
\* transmitted angle, sqrt(1 - sin2_t), in place of cos when n1 > n2 and there
\* is no total internal reflection.
SchlickReflectance(c) ==
    IF c.n1 > c.n2 /\ Sin2T(c) > Unit THEN Unit
    ELSE LET cos == IF c.n1 > c.n2 THEN Sqrt(Unit - Sin2T(c)) ELSE c.cos
         IN  R0(c) + ((Unit - R0(c)) * Powi5(Unit - cos)) \div Unit

(* C11: in shade_hit a light's contribution is surface + reflected*R +
   refracted*(1-R), with R the Schlick reflectance, when the material has
   reflective > 0 and transparency > 0, and surface + reflected + refracted
   in every other case. *)
C11_SchlickBlend ==
    (blI > 0) =>
        blContribution =
            IF blMat.reflective > 0 /\ blMat.transparency > 0
            THEN Unit * blSurface + blReflected * SchlickReflectance(blComps)
                    + blRefracted * (Unit - SchlickReflectance(blComps))
            ELSE Unit * (blSurface + blReflected + blRefracted)

(***************************************************************************)
(* Claims on the Group tree: geometry/group.rs                             *)
(***************************************************************************)
\* a step that is one call of add_child: the scene gains one shape
AddChildStep == Len(nodes') = Len(nodes) + 1 /\ divided' = divided

\* What add_child(child) on group g changes and what it leaves alone.
AddChildEffect ==
    LET c == Len(nodes')
        g == nodes'[c].parent
    IN  /\ g \in DOMAIN nodes /\ IsGroup(nodes, g)
        /\ nodes'[g].children = Append(nodes[g].children, c)
        /\ nodes'[g].cache = <<>>
        /\ nodes'[g].parent = nodes[g].parent
        /\ nodes'[c].children = <<>> /\ nodes'[c].cache = <<>>
        /\ \A n \in DOMAIN nodes : n # g => nodes'[n] = nodes[n]

\* After add_children on a fresh group: the children in the order given, each
\* with the group as parent, and no cached box.
AddChildrenEffect ==
    (sceneKind = "build_world" /\ phase = "build" /\ ~divided) =>
        /\ nodes[Root].children = [i \in 1 .. Len(BuildWorldChildren) |-> i + 1]
        /\ \A i \in 1 .. Len(BuildWorldChildren) :
              nodes[i + 1].parent = Root /\ nodes[i + 1].box = BuildWorldChildren[i]
        /\ nodes[Root].cache = <<>>

(* C12: add_child(child) sets the child's parent to this group, appends the
   child at the end of the child list leaving the other children and their
   order as they were, and clears this group's cached bounding box;
   add_children does this for each element in order. *)
C12_AddChild ==
    /\ [][AddChildStep => AddChildEffect]_vars
    /\ []AddChildrenEffect

\* A primitive was added to the root after a nested group whose box is cached:
\* it is last in the list, its parent is the root, and the root's cache is empty.
C12_Witness ==
    /\ sceneKind = "free" /\ phase = "build" /\ ~divided
    /\ Len(nodes[Root].children) = 2
    /\ IsGroup(nodes, nodes[Root].children[1])
    /\ nodes[nodes[Root].children[1]].cache # <<>>
    /\ ~IsGroup(nodes, nodes[Root].children[2])
    /\ nodes[nodes[Root].children[2]].parent = Root
    /\ nodes[Root].cache = <<>>

\* The union of the parent-space bounds of the current children, computed
\* afresh from the primitives' boxes (group.rs:65-76 without any cache).
RECURSIVE FreshBounds(_, _), FreshUnion(_, _, _, _)
FreshBounds(ns, n) ==
    IF ~IsGroup(ns, n) THEN ns[n].box ELSE FreshUnion(ns, ns[n].children, 1, EmptyBox)

FreshUnion(ns, cs, i, result) ==
    IF i > Len(cs) THEN result
    ELSE FreshUnion(ns, cs, i + 1, BoxAdd(result, FreshBounds(ns, cs[i])))

(* C13: after any sequence of add_child and bounds() calls on a tree of
   groups, a child added to a nested group after an ancestor's bounds()
   included, bounds() of every group is the union of the parent-space bounds
   of its current children: a cached box is never stale. *)
C13_CacheNeverStale ==
    (phase = "build" /\ ~divided) =>
        \A g \in GroupsOf(nodes) :
            /\ nodes[g].cache # <<>> => nodes[g].cache[1] = FreshBounds(nodes, g)
            /\ Bounds(nodes, g).box = FreshBounds(nodes, g)

\* the step that calls divide on the root
DivideStep == ~divided /\ divided'

\* the members of cs that are in keep, in the order of cs
InOrder(cs, keep) == SelectSeq(cs, LAMBDA c : c \in keep)

Range(s) == {s[i] : i \in DOMAIN s}

\* what divide leaves of group g of the table before, in the table after
DivideEffect(before, after, g) ==
    LET halves == SplitBounds(Bounds(before, g).box)
        cs == before[g].children
        InLeft(c) == ContainsBox(halves.left, Bounds(before, c).box)
        InRight(c) == ContainsBox(halves.right, Bounds(before, c).box)
        left == InOrder(cs, {c \in Range(cs) : InLeft(c)})
        right == InOrder(cs, {c \in Range(cs) : ~InLeft(c) /\ InRight(c)})
        straddlers == InOrder(cs, {c \in Range(cs) : ~InLeft(c) /\ ~InRight(c)})
        kids == after[g].children
        made == SubSeq(kids, Len(straddlers) + 1, Len(kids))
        halvesFilled == <<left, right>>
        filled == SelectSeq(<<1, 2>>, LAMBDA h : halvesFilled[h] # <<>>)
    IN  /\ Len(kids) = Len(straddlers) + Len(filled)
        /\ SubSeq(kids, 1, Len(straddlers)) = straddlers
        /\ \A i \in DOMAIN filled :
              LET subgroup == made[i]
                  moved == Range(halvesFilled[filled[i]])
              IN  /\ subgroup \notin DOMAIN before
                  /\ IsGroup(after, subgroup)
                  /\ after[subgroup].parent = g
                  /\ Reachable(after, subgroup) \cap Range(before[g].children) = moved
                  /\ \A c \in moved : PathTo(after, c) \cap Range(made) = {subgroup}

(* C14: divide(threshold) on a group with at least threshold direct children
   halves the group's box, moves the children wholly in the left half into one
   new subgroup and the others wholly in the right half into another, keeps
   the straddling children in their order, makes a subgroup only for a half
   that received a child, and leaves the group with (straddlers + non-empty
   halves) direct children. *)
C14_Divide ==
    [][DivideStep =>
          \A g \in GroupsOf(nodes) :
              threshold' <= Len(nodes[g].children) => DivideEffect(nodes, nodes', g)]_vars

\* divide has kept a straddling primitive and made both subgroups
C14_Witness ==
    /\ divided
    /\ Len(nodes[Root].children) >= 3
    /\ \E i, j, k \in DOMAIN nodes[Root].children :
          /\ i < j /\ j < k
          /\ ~IsGroup(nodes, nodes[Root].children[i])
          /\ IsGroup(nodes, nodes[Root].children[j])
          /\ IsGroup(nodes, nodes[Root].children[k])
          /\ nodes[nodes[Root].children[j]].children # <<>>
          /\ nodes[nodes[Root].children[k]].children # <<>>

(***************************************************************************)
(* local_intersect of the composites: geometry/group.rs:126-147 and        *)
(* geometry/csg.rs:145-158, called through Shape::intersect                *)
(* (geometry/shape.rs:24-30).                                              *)
(***************************************************************************)
GroupOf(cs) == [kind |-> "group", children |-> cs]
CsgOf(left, right) == [kind |-> "csg", children |-> <<left, right>>]
TestShape == [kind |-> "shape", children |-> <<>>]

\* The scenes a ray is cast at; shape 1 is the one intersect is called on.
CompositeScenes ==
    { <<GroupOf(<<>>)>>,
      <<GroupOf(<<2, 3>>), TestShape, TestShape>>,
      <<CsgOf(2, 3), TestShape, TestShape>>,
      <<GroupOf(<<2, 5>>), CsgOf(3, 4), TestShape, TestShape, TestShape>>,
      <<CsgOf(2, 4), GroupOf(<<3>>), TestShape, TestShape>>,
      <<GroupOf(<<2, 3>>), TestShape, GroupOf(<<4, 5>>), TestShape, TestShape>> }

Composites(ss) == {s \in DOMAIN ss : ss[s].kind # "shape"}

\* the number of intersections a primitive's local_intersect returns
ShapeHits == {0, 2}

AlwaysIntersects(s) == TRUE

\* group.rs:127, csg.rs:146: self.bounds().intersects(local_ray)
BoundsIntersects(s) == s \in boxHit

\* a list of intersections without its order: how many entries hold each object
NoIntersections == [o \in DOMAIN shapes |-> 0]

Total(list) ==
    LET sum[i \in 0 .. Len(list)] == IF i = 0 THEN 0 ELSE sum[i - 1] + list[i]
    IN  sum[Len(list)]

CallOf(s) == [shape |-> s, i |-> 0, result |-> 0, list |-> NoIntersections]

InitComposite ==
    /\ IdleExceptComposite
    /\ shapes \in CompositeScenes
    /\ boxHit \in SUBSET Composites(shapes)
    /\ calls = <<CallOf(1)>>
    /\ savedRay = {1}
    /\ returned = [s \in DOMAIN shapes |-> -1]
    /\ references = [s \in DOMAIN shapes |-> NoIntersections]
    /\ normalAt = 0

Innermost == calls[Len(calls)]

\* the innermost call returns a list of intersections to its caller, whose
\* loop appends them and goes on
ReturnList(list) ==
    LET rest == SubSeq(calls, 1, Len(calls) - 1)
    IN  /\ returned' = [returned EXCEPT ![Innermost.shape] = Total(list)]
        /\ references' = [references EXCEPT ![Innermost.shape] = list]
        /\ calls' = IF rest = <<>> THEN rest
                    ELSE [rest EXCEPT ![Len(rest)].i = @ + 1,
                                      ![Len(rest)].result = @ + Total(list),
                                      ![Len(rest)].list =
                                          [o \in DOMAIN shapes |-> @[o] + list[o]]]
        /\ UNCHANGED <<shapes, boxHit, savedRay, normalAt>>
        /\ UNCHANGED otherThanComposite

\* group.rs:144-146, csg.rs:155-157: the else branch
BoxMissed ==
    /\ calls # <<>>
    /\ shapes[Innermost.shape].kind # "shape"
    /\ Innermost.i = 0
    /\ ~BoundsIntersects(Innermost.shape)
    /\ ReturnList(NoIntersections)

\* group.rs:127-130, csg.rs:146-147: the then branch is entered
BoxHit ==
    /\ calls # <<>>
    /\ shapes[Innermost.shape].kind # "shape"
    /\ Innermost.i = 0
    /\ BoundsIntersects(Innermost.shape)
    /\ calls' = [calls EXCEPT ![Len(calls)].i = 1]
    /\ UNCHANGED <<shapes, boxHit, savedRay, returned, references, normalAt>>
    /\ UNCHANGED otherThanComposite

\* group.rs:132-135, csg.rs:149-150: intersect is called on the next child
IntersectChild ==
    /\ calls # <<>>
    /\ Innermost.i \in 1 .. Len(shapes[Innermost.shape].children)
    /\ LET child == shapes[Innermost.shape].children[Innermost.i]
       IN  /\ calls' = Append(calls, CallOf(child))
           /\ savedRay' = savedRay \cup {child}
    /\ UNCHANGED <<shapes, boxHit, returned, references, normalAt>>
    /\ UNCHANGED otherThanComposite

OutermostObject(self) == 1

\* Intersection::new(t, self.clone()) of a primitive's local_intersect
IntersectionObject(self) == self

\* a primitive's local_intersect returns its intersections
ShapeReturn(k) ==
    /\ calls # <<>>
    /\ shapes[Innermost.shape].kind = "shape"
    /\ ReturnList([NoIntersections EXCEPT ![IntersectionObject(Innermost.shape)] = k])

\* group.rs:137-143: the group returns what its children returned
GroupReturn ==
    /\ calls # <<>>
    /\ shapes[Innermost.shape].kind = "group"
    /\ Innermost.i > Len(shapes[Innermost.shape].children)
    /\ ReturnList(Innermost.list)

\* csg.rs:152-154: the CSG returns the k intersections its filter keeps
CsgFiltered(k) ==
    /\ calls # <<>>
    /\ shapes[Innermost.shape].kind = "csg"
    /\ Innermost.i > Len(shapes[Innermost.shape].children)
    /\ k <= Innermost.result
    /\ \E kept \in [DOMAIN shapes -> 0 .. k] :
          /\ \A o \in DOMAIN shapes : kept[o] <= Innermost.list[o]
          /\ Total(kept) = k
          /\ ReturnList(kept)

\* world.rs:198-211, 70-82: color_at takes the hit of the list and
\* prepare_computations calls normal_at on its object
PrepareComputations ==
    /\ shapes # <<>>
    /\ calls = <<>>
    /\ normalAt = 0
    /\ \E o \in DOMAIN shapes :
          /\ references[1][o] > 0
          /\ normalAt' = o
    /\ UNCHANGED <<shapes, boxHit, calls, savedRay, returned, references>>
    /\ UNCHANGED otherThanComposite

NextComposite ==
    \/ BoxMissed
    \/ BoxHit
    \/ IntersectChild
    \/ \E k \in ShapeHits : ShapeReturn(k)
    \/ GroupReturn
    \/ \E k \in 0 .. 4 : CsgFiltered(k)
    \/ PrepareComputations

SpecComposite == InitComposite /\ [][NextComposite]_vars

ChildrenOf(s) == {shapes[s].children[i] : i \in DOMAIN shapes[s].children}

(* C15: a composite (Group or CSG) whose bounding box the local ray misses
   returns an empty list and invokes intersect on none of its children; one
   whose box the ray hits invokes intersect on every child. *)
C15_BoxTest ==
    \A s \in Composites(shapes) :
        /\ (s \in savedRay /\ s \notin boxHit) => ChildrenOf(s) \cap savedRay = {}
        /\ returned[s] >= 0 =>
              IF s \in boxHit THEN ChildrenOf(s) \subseteq savedRay
              ELSE returned[s] = 0

\* a group hit by the ray has returned after its CSG child, missed by the ray,
\* returned without its children being asked
C15_Witness ==
    /\ shapes # <<>>
    /\ returned[1] >= 0
    /\ shapes[1].kind = "group"
    /\ 1 \in boxHit
    /\ \E c \in ChildrenOf(1) :
          shapes[c].kind = "csg" /\ c \notin boxHit /\ returned[c] = 0

(***************************************************************************)
(* Construction of shapes and Matrix::inverse: geometry/cube.rs:34-42,     *)
(* geometry/group.rs:38-48, geometry/csg.rs:34-59,                         *)
(* matrices/matrix.rs:165-190, geometry/shape.rs:24-30, 61-94.             *)
(* A transform is a scaling, given by its diagonal in hundredths.          *)
(***************************************************************************)
\* the identity, a scaling that flattens x, one that shrinks to 2 percent and
\* one that mirrors x
Transforms == {<<100, 100, 100>>, <<0, 100, 100>>, <<2, 2, 2>>, <<-200, 50, 100>>}

\* matrix.rs:197-215 for a scaling: the product of the diagonal, in the units
\* of EPSILON (f64 division rounds towards the nearer value; the quotient here
\* is cut towards zero, which keeps the side of EPSILON it is on)
Determinant(t) ==
    LET product == t[1] * t[2] * t[3]
    IN  IF product >= 0 THEN product \div 5 ELSE -((-product) \div 5)

\* matrix.rs:165-190: <<>> is Err, <<m>> is Ok(m)
Inverse(t) ==
    IF Abs(Determinant(t)) < EPSILON THEN <<>>
    ELSE <<[k \in 1 .. 3 |-> 10000 \div t[k]]>>

InitConstruct ==
    /\ IdleExceptConstruct
    /\ built = <<>>
    /\ ctPc = "build"
    /\ unwrapPanic = FALSE

Construct(kind, transform) ==
    /\ ctPc = "build"
    /\ Len(built) < MaxShapes
    /\ built' = Append(built, [kind |-> kind, transform |-> transform])
    /\ UNCHANGED <<ctPc, unwrapPanic>>
    /\ UNCHANGED otherThanConstruct

\* cube.rs:34-42
CubeNew(transform) == Construct("cube", transform)

\* group.rs:38-48
GroupNew(transform) == Construct("group", transform)

\* csg.rs:34-59
CSGNew(transform, left, right) ==
    /\ left \in DOMAIN built
    /\ right \in DOMAIN built
    /\ Construct("csg", transform)

\* lib.rs:310: the scene is built
SceneBuilt ==
    /\ ctPc = "build"
    /\ built # <<>>
    /\ ctPc' = "render"
    /\ UNCHANGED <<built, unwrapPanic>>
    /\ UNCHANGED otherThanConstruct

\* self.get_transform().inverse().unwrap() of shape s
InverseUnwrap(s) ==
    /\ ctPc = "render"
    /\ ~unwrapPanic
    /\ unwrapPanic' = (Inverse(built[s].transform) = <<>>)
    /\ UNCHANGED <<built, ctPc>>
    /\ UNCHANGED otherThanConstruct

\* shape.rs:24-30
ShapeIntersect(s) == InverseUnwrap(s)

\* shape.rs:61-75
WorldToObject(s) == InverseUnwrap(s)

\* shape.rs:79-94
NormalToWorld(s) == InverseUnwrap(s)

NextConstruct ==
    \/ \E t \in Transforms : CubeNew(t)
    \/ \E t \in Transforms : GroupNew(t)
    \/ \E t \in Transforms, left, right \in DOMAIN built : CSGNew(t, left, right)
    \/ SceneBuilt
    \/ \E s \in DOMAIN built : ShapeIntersect(s)
    \/ \E s \in DOMAIN built : WorldToObject(s)
    \/ \E s \in DOMAIN built : NormalToWorld(s)

SpecConstruct == InitConstruct /\ [][NextConstruct]_vars

(* C16: no shape can be constructed with a non-invertible transform, so that
   after the scene is built no shape holds one and no inverse().unwrap() of
   intersect, world_to_object or normal_to_world panics. *)
C16_NoSingularTransform ==
    /\ \A s \in DOMAIN built : Inverse(built[s].transform) # <<>>
    /\ ~unwrapPanic

(***************************************************************************)
(* Parent references: Group::add_child (group.rs:56-63), CSG::new          *)
(* (csg.rs:34-59) and divide called with any shapes the program holds.     *)
(***************************************************************************)
\* csg.rs:34-59: the CSG as it is constructed, before set_parent
NewCsg(left, right) == [kind |-> "csg", children |-> <<left, right>>, parent |-> 0,
                        cache |-> <<>>, box |-> EmptyBox]

\* the parent-space boxes of the primitives: one on each side
HandleBoxes == {Box(-24, -8, -8, -8, 8, 8), Box(8, 0, -8, 24, 16, 8)}

InitParents ==
    /\ IdleExceptScene
    /\ phase = "build"
    /\ sceneKind = "handles"
    /\ nodes = <<NewGroup>>
    /\ divided = FALSE
    /\ threshold = 0
    /\ workerWrites = {}

\* Group::default() (group.rs:26-36)
GroupDefault ==
    /\ Len(nodes) < MaxShapes
    /\ nodes' = Append(nodes, NewGroup)
    /\ UNCHANGED <<phase, sceneKind, divided, threshold, workerWrites>>
    /\ UNCHANGED otherThanScene

\* the construction of a primitive
SphereNew(b) ==
    /\ Len(nodes) < MaxShapes
    /\ nodes' = Append(nodes, NewLeaf(b))
    /\ UNCHANGED <<phase, sceneKind, divided, threshold, workerWrites>>
    /\ UNCHANGED otherThanScene

\* csg.rs:34-59: CSG::new over two shapes the program holds
CSGOver(left, right) ==
    /\ Len(nodes) < MaxShapes
    /\ LET csg == Len(nodes) + 1
       IN  nodes' = [Append(nodes, NewCsg(left, right)) EXCEPT
                        ![left].parent = csg, ![right].parent = csg]
    /\ UNCHANGED <<phase, sceneKind, divided, threshold, workerWrites>>
    /\ UNCHANGED otherThanScene

\* group.rs:56-63: add_child with any shape the program holds; as in
\* build_world (lib.rs:306-308) the children are added before divide is called
AddChildCall(g, c) ==
    /\ ~divided
    /\ IsGroup(nodes, g)
    /\ \A i \in DOMAIN nodes[g].children : nodes[g].children[i] # c
    /\ nodes' = AddChild(nodes, g, c)
    /\ UNCHANGED <<phase, sceneKind, divided, threshold, workerWrites>>
    /\ UNCHANGED otherThanScene

\* the shapes reached from those of s through children, left and right
RECURSIVE Below(_, _, _)
Below(ns, s, k) ==
    IF k = 0 THEN s
    ELSE Below(ns, s \cup UNION {{ns[n].children[i] : i \in DOMAIN ns[n].children} : n \in s},
               k - 1)

\* divide, called on n, returns: no shape below n is below itself
DivideReturns(ns, n) ==
    \A m \in Below(ns, {n}, Len(ns)) :
        m \notin Below(ns, {ns[m].children[i] : i \in DOMAIN ns[m].children}, Len(ns))

\* group.rs:189-209, csg.rs:218-221: divide on any shape the program holds
DivideCall(n, t) ==
    /\ ~divided
    /\ DivideReturns(nodes, n)
    /\ nodes' = Divide(nodes, n, t)
    /\ divided' = TRUE
    /\ threshold' = t
    /\ UNCHANGED <<phase, sceneKind, workerWrites>>
    /\ UNCHANGED otherThanScene

NextParents ==
    \/ GroupDefault
    \/ \E b \in HandleBoxes : SphereNew(b)
    \/ \E left, right \in DOMAIN nodes : CSGOver(left, right)
    \/ \E g, c \in DOMAIN nodes : AddChildCall(g, c)
    \/ \E n \in DOMAIN nodes, t \in Thresholds : DivideCall(n, t)

SpecParents == InitParents /\ [][NextParents]_vars

\* shape.rs:61-94: the shape k get_parent steps above n, 0 when there is none
RECURSIVE GetParent(_, _, _)
GetParent(ns, n, k) == IF k = 0 \/ n = 0 THEN n ELSE GetParent(ns, ns[n].parent, k - 1)

(* C17: after any sequence of add_child, CSG::new and divide the parent
   references form no cycle: following get_parent from any shape reaches a
   shape without parent in finitely many steps. *)
C17_ParentsAcyclic ==
    \A n \in DOMAIN nodes : GetParent(nodes, n, Len(nodes)) = 0

(***************************************************************************)
(* ObjFileParser::parse_obj_file: scene/obj_file_parser.rs:40-152, 198-204 *)
(* A line is the list of its parameters, split at the spaces.              *)
(***************************************************************************)
\* The non-empty lines of the files parsed.
ObjLines ==
    { <<"v", "1", "2", "3">>, <<"v", "1", "2">>, <<"v", "1", "a", "3">>,
      <<"vn", "0", "0", "1">>, <<"vn", "0">>, <<"vn", "a", "0", "1">>,
      <<"g", "first">>, <<"g">>,
      <<"f", "1", "2", "3">>, <<"f", "1", "2", "3", "4">>, <<"f", "1", "2">>,
      <<"f">>, <<"f", "1", "a", "3">>, <<"f", "0", "1", "2">>,
      <<"#", "a", "comment">> }

\* f64::from_str and usize::from_str of the parameters that occur: <<>> is Err
FromStr(s) ==
    CASE s = "0" -> <<0>> [] s = "1" -> <<1>> [] s = "2" -> <<2>>
      [] s = "3" -> <<3>> [] s = "4" -> <<4>> [] OTHER -> <<>>

\* obj_file_parser.rs:47: default_group.to_string()
DefaultGroup == "default"

InitObj ==
    /\ IdleExceptObj
    /\ objPc = "lines"
    /\ vertices = <<>>
    /\ vertexNormals = <<>>
    /\ groups = <<>>
    /\ currentGroup = DefaultGroup
    /\ lineNo = 0
    /\ lastLine = <<>>

\* obj_file_parser.rs:61-68: the next non-empty line and its command
ReadLine(parameters, commands) ==
    /\ objPc = "lines"
    /\ lineNo < MaxLines
    /\ parameters[1] \in commands
    /\ lineNo' = lineNo + 1
    /\ lastLine' = parameters
    /\ UNCHANGED otherThanObj

\* obj_file_parser.rs:88-96 and 143-151: the three coordinates of a v or vn
\* line.  "panic": parameters[k] is out of bounds; "err": from_str failed
\* and ? returned the error; the parameters are dealt with from the left.
Coordinates(parameters) ==
    LET present == {k \in 2 .. 4 : k \in DOMAIN parameters}
        parsed == {k \in present : FromStr(parameters[k]) # <<>>}
        first == CHOOSE k \in 2 .. 5 : k \notin parsed /\ \A j \in 2 .. k - 1 : j \in parsed
    IN  IF first = 5
        THEN [is |-> "ok", value |-> [k \in 1 .. 3 |-> FromStr(parameters[k + 1])[1]]]
        ELSE IF first \in present THEN [is |-> "err", value |-> <<>>]
        ELSE [is |-> "panic", value |-> <<>>]

\* obj_file_parser.rs:88-96
HandleVertexCommand(parameters) ==
    /\ ReadLine(parameters, {"v"})
    /\ LET point == Coordinates(parameters)
       IN  IF point.is # "ok"
           THEN objPc' = point.is /\ UNCHANGED vertices
           ELSE objPc' = objPc /\ vertices' = Append(vertices, point.value)
    /\ UNCHANGED <<vertexNormals, groups, currentGroup>>

\* obj_file_parser.rs:143-151
HandleVertexNormalCommand(parameters) ==
    /\ ReadLine(parameters, {"vn"})
    /\ LET vector == Coordinates(parameters)
       IN  IF vector.is # "ok"
           THEN objPc' = vector.is /\ UNCHANGED vertexNormals
           ELSE objPc' = objPc /\ vertexNormals' = Append(vertexNormals, vector.value)
    /\ UNCHANGED <<vertices, groups, currentGroup>>

\* obj_file_parser.rs:137-141
HandleGroupCommand(parameters) ==
    /\ ReadLine(parameters, {"g"})
    /\ IF 2 \in DOMAIN parameters
       THEN objPc' = objPc /\ currentGroup' = parameters[2]
       ELSE objPc' = "panic" /\ UNCHANGED currentGroup
    /\ UNCHANGED <<vertices, vertexNormals, groups>>

\* obj_file_parser.rs:155-204: the triangles of the fan over the indices, or
\* a panic: vertex_indices.len() - 1 underflows, or get_vertex indexes
\* self.vertices out of bounds
FanTriangulation(vertexIndices) ==
    IF vertexIndices = <<>> THEN [is |-> "panic", value |-> <<>>]
    ELSE IF Len(vertexIndices) >= 3 /\
            \E i \in DOMAIN vertexIndices : vertexIndices[i] \notin DOMAIN vertices
      THEN [is |-> "panic", value |-> <<>>]
    ELSE [is |-> "ok",
          value |-> [index \in 1 .. Len(vertexIndices) - 2 |->
                       <<vertices[vertexIndices[1]], vertices[vertexIndices[index + 1]],
                         vertices[vertexIndices[index + 2]]>>]]

\* obj_file_parser.rs:98-135
HandleFaceCommand(parameters) ==
    /\ ReadLine(parameters, {"f"})
    /\ UNCHANGED <<vertices, vertexNormals, currentGroup>>
    /\ IF \E i \in 2 .. Len(parameters) : FromStr(parameters[i]) = <<>>
       THEN objPc' = "err" /\ UNCHANGED groups
       ELSE LET vertexIndices == [i \in 1 .. Len(parameters) - 1 |->
                                    FromStr(parameters[i + 1])[1]]
                triangles == FanTriangulation(vertexIndices)
            IN  IF triangles.is = "panic"
                THEN objPc' = "panic" /\ UNCHANGED groups
                ELSE /\ objPc' = objPc
                     /\ groups' =
                          IF \E g \in DOMAIN groups : groups[g].name = currentGroup
                          THEN [g \in DOMAIN groups |->
                                  IF groups[g].name = currentGroup
                                  THEN [groups[g] EXCEPT !.children = @ \o triangles.value]
                                  ELSE groups[g]]
                          ELSE Append(groups, [name |-> currentGroup,
                                               children |-> triangles.value])

\* obj_file_parser.rs:69-77: a line whose command is none of the four
SkipLine(parameters) ==
    /\ ReadLine(parameters, {"#"})
    /\ UNCHANGED <<objPc, vertices, vertexNormals, groups, currentGroup>>

\* obj_file_parser.rs:82: the lines are exhausted
ParseReturns ==
    /\ objPc = "lines"
    /\ objPc' = "ok"
    /\ UNCHANGED <<vertices, vertexNormals, groups, currentGroup, lineNo, lastLine>>
    /\ UNCHANGED otherThanObj

NextObj ==
    \/ \E parameters \in ObjLines : HandleVertexCommand(parameters)
    \/ \E parameters \in ObjLines : HandleVertexNormalCommand(parameters)
    \/ \E parameters \in ObjLines : HandleGroupCommand(parameters)
    \/ \E parameters \in ObjLines : HandleFaceCommand(parameters)
    \/ \E parameters \in ObjLines : SkipLine(parameters)
    \/ ParseReturns

SpecObj == InitObj /\ [][NextObj]_vars

\* the lines the parser is to skip, given the vertices collected so far
Malformed(parameters, collected) ==
    LET command == parameters[1]
        numbers == \A i \in 2 .. Len(parameters) : FromStr(parameters[i]) # <<>>
    IN  \/ command \notin {"v", "vn", "g", "f"}
        \/ command \in {"v", "vn"} /\ (Len(parameters) < 4 \/ ~numbers)
        \/ command = "g" /\ Len(parameters) < 2
        \/ command = "f" /\
              \/ Len(parameters) < 4
              \/ ~numbers
              \/ \E i \in 2 .. Len(parameters) :
                    FromStr(parameters[i])[1] \notin 1 .. Len(collected)

(* C18: parse_obj_file skips every malformed or unsupported line (unknown
   command; v or vn with fewer than three or non-numeric coordinates; g without
   a name; f with fewer than three, non-numeric or out-of-range indices)
   without returning an error or panicking, and the line leaves the vertices,
   normals and groups collected so far unchanged. *)
C18_SkipsMalformed ==
    [][(lineNo' = lineNo + 1 /\ Malformed(lastLine', vertices)) =>
          /\ objPc' = "lines"
          /\ UNCHANGED <<vertices, vertexNormals, groups>>]_vars

(***************************************************************************)
(* World::intersect_world and the hit color_at takes from it:              *)
(* scene/world.rs:55-68, 198-212.  An intersection is its time and the     *)
(* position of its object in self.objects.                                 *)
(***************************************************************************)
\* the numbers of objects of the worlds
ObjectCounts == {0, 1, 2}

\* the lists intersect returns on object i: none, one or two intersections,
\* in any order.  The times are numbers: the shapes return no NaN.
IntersectionsOf(i) ==
    LET entries == [time : Times, object : {i}]
    IN  {<<>>} \cup {<<a>> : a \in entries} \cup {<<a, b>> : a, b \in entries}

Unsorted(xs) == xs

\* world.rs:65: result.sort_by(|a, b| a.time().partial_cmp(&b.time()).unwrap()),
\* a stable sort: an entry goes behind the entries that are not later than it
RECURSIVE SortBy(_)
SortBy(xs) ==
    IF xs = <<>> THEN xs
    ELSE LET front == SortBy(SubSeq(xs, 1, Len(xs) - 1))
             x == xs[Len(xs)]
             k == Cardinality({j \in DOMAIN front : front[j].time <= x.time})
         IN  SubSeq(front, 1, k) \o <<x>> \o SubSeq(front, k + 1, Len(front))

\* intersection.rs:32-41: the index hit returns, 0-based
Hit(xs) ==
    LET inFront == {j \in DOMAIN xs : InFront(xs[j].time)}
    IN  IF inFront = {} THEN <<>>
        ELSE <<(CHOOSE j \in inFront : \A k \in inFront : j <= k) - 1>>

InitWorld ==
    /\ IdleExceptWorld
    /\ iwPc = "loop"
    /\ \E n \in ObjectCounts :
          iwObjects \in {lists \in [1 .. n -> UNION {IntersectionsOf(i) : i \in 1 .. n}] :
                            \A i \in 1 .. n : lists[i] \in IntersectionsOf(i)}
    /\ iwI = 0
    /\ iwResult = <<>>
    /\ iwHit = <<>>

\* world.rs:58-63: the loop body
IntersectObject ==
    /\ iwPc = "loop"
    /\ iwI < Len(iwObjects)
    /\ iwResult' = iwResult \o iwObjects[iwI + 1]
    /\ iwI' = iwI + 1
    /\ UNCHANGED <<iwPc, iwObjects, iwHit>>
    /\ UNCHANGED otherThanWorld

\* world.rs:65-67: the sort and the return to color_at
SortResult ==
    /\ iwPc = "loop"
    /\ iwI = Len(iwObjects)
    /\ iwResult' = SortBy(iwResult)
    /\ iwPc' = "hit"
    /\ UNCHANGED <<iwObjects, iwI, iwHit>>
    /\ UNCHANGED otherThanWorld

\* world.rs:203-211: color_at takes the hit
ColorAtTakesHit ==
    /\ iwPc = "hit"
    /\ iwHit' = Hit(iwResult)
    /\ iwPc' = "done"
    /\ UNCHANGED <<iwObjects, iwI, iwResult>>
    /\ UNCHANGED otherThanWorld

NextWorld ==
    \/ IntersectObject
    \/ SortResult
    \/ ColorAtTakesHit

SpecWorld == InitWorld /\ [][NextWorld]_vars

\* how often x occurs in xs
Occurrences(xs, x) == Cardinality({j \in DOMAIN xs : xs[j] = x})

\* how often x occurs in the lists of all objects
OccurrencesInAll(x) ==
    LET counts == [i \in DOMAIN iwObjects |-> Occurrences(iwObjects[i], x)]
    IN  IF DOMAIN iwObjects = {} THEN 0
        ELSE IF Len(iwObjects) = 1 THEN counts[1]
        ELSE counts[1] + counts[2]

(* C19: intersect_world returns exactly the intersections that intersect
   returns on each top-level shape (the same multiset), ordered by
   non-decreasing time, so that color_at shades the intersection with the
   smallest positive time over all objects. *)
C19_IntersectWorld ==
    (iwPc \in {"hit", "done"}) =>
        /\ \A i \in DOMAIN iwObjects : \A j \in DOMAIN iwObjects[i] :
              Occurrences(iwResult, iwObjects[i][j]) = OccurrencesInAll(iwObjects[i][j])
        /\ \A j \in DOMAIN iwResult :
              Occurrences(iwResult, iwResult[j]) = OccurrencesInAll(iwResult[j])
        /\ \A j \in 1 .. Len(iwResult) - 1 : iwResult[j].time <= iwResult[j + 1].time
        /\ iwPc = "done" =>
              LET positive == {t \in 1 .. MaxTime :
                                  \E i \in DOMAIN iwObjects : \E j \in DOMAIN iwObjects[i] :
                                      iwObjects[i][j].time = t}
              IN  IF positive = {} THEN iwHit = <<>>
                  ELSE /\ iwHit # <<>>
                       /\ iwResult[iwHit[1] + 1].time \in positive
                       /\ \A t \in positive : iwResult[iwHit[1] + 1].time <= t

\* the hit is an intersection of the second object that the first object's
\* intersections, one behind the ray's origin and one farther, came before
C19_Witness ==
    /\ iwPc = "done"
    /\ Len(iwObjects) = 2
    /\ iwHit # <<>> /\ iwHit[1] >= 1
    /\ iwResult[iwHit[1] + 1].object = 2
    /\ \E j \in DOMAIN iwObjects[1] : iwObjects[1][j].time < 0
    /\ \E j \in DOMAIN iwObjects[1] : iwObjects[1][j].time > iwResult[iwHit[1] + 1].time

(***************************************************************************)
(* Concurrent calls of Group::bounds: geometry/group.rs:173-185 with       *)
(* find_bounds, group.rs:65-76.  The cache is an RwLock: a read and a      *)
(* write of it are one step each, and the lock is released in between.     *)
(***************************************************************************)
\* the threads that call bounds()
BoundsThreads == {1, 2, 3}

\* a group of a sphere and a nested group of two spheres
TwoLevels ==
    LET table == <<NewGroup, NewLeaf(Box(-8, -8, -8, 8, 8, 8)), NewGroup,
                   NewLeaf(Box(-24, -8, -8, -8, 8, 8)), NewLeaf(Box(8, 0, -8, 24, 16, 8))>>
    IN  AddChild(AddChildren(AddChild(table, Root, 2), 3, <<4, 5>>), Root, 3)

\* a group whose cache was filled before its nested group received a sphere
StaleRoot ==
    LET table == <<NewGroup, NewGroup, NewLeaf(Box(8, 0, -8, 24, 16, 8))>>
    IN  AddChild(Bounds(AddChild(table, Root, 2), Root).nodes, 2, 3)

\* the trees the threads share, their children fixed from here on
SharedTrees ==
    {TwoLevels, Bounds(TwoLevels, 3).nodes, Bounds(TwoLevels, Root).nodes, StaleRoot}

SomeEmpty(bounds) == <<EmptyBox>>

\* group.rs:183: Some(bounds)
Some(bounds) == <<bounds>>

BoundsCall(g) == [group |-> g, pc |-> "read", i |-> 1, result |-> EmptyBox]

InitConcurrent ==
    /\ IdleExceptConcurrent
    /\ tree \in SharedTrees
    /\ thCalls = [t \in BoundsThreads |-> <<>>]
    /\ thReturned = [t \in BoundsThreads |-> <<>>]

Running(t) == thCalls[t][Len(thCalls[t])]

\* the running call of thread t returns box: to the thread, or to the loop of
\* find_bounds that called it (group.rs:71-72)
ReturnBox(t, box) ==
    LET rest == SubSeq(thCalls[t], 1, Len(thCalls[t]) - 1)
    IN  IF rest = <<>>
        THEN /\ thCalls' = [thCalls EXCEPT ![t] = rest]
             /\ thReturned' = [thReturned EXCEPT ![t] = <<Running(t).group, box>>]
        ELSE /\ thCalls' = [thCalls EXCEPT ![t] =
                              [rest EXCEPT ![Len(rest)].i = @ + 1,
                                           ![Len(rest)].result = BoxAdd(@, box)]]
             /\ UNCHANGED thReturned

\* thread t calls bounds() on group g
ThreadCallsBounds(t, g) ==
    /\ thCalls[t] = <<>>
    /\ thReturned[t] = <<>>
    /\ IsGroup(tree, g)
    /\ thCalls' = [thCalls EXCEPT ![t] = <<BoundsCall(g)>>]
    /\ UNCHANGED <<tree, thReturned>>
    /\ UNCHANGED otherThanConcurrent

\* group.rs:174-180: the cache is read under the read lock
ReadCache(t) ==
    /\ thCalls[t] # <<>>
    /\ Running(t).pc = "read"
    /\ IF tree[Running(t).group].cache # <<>>
       THEN ReturnBox(t, tree[Running(t).group].cache[1])
       ELSE /\ thCalls' = [thCalls EXCEPT ![t][Len(thCalls[t])].pc = "find_bounds"]
            /\ UNCHANGED thReturned
    /\ UNCHANGED tree
    /\ UNCHANGED otherThanConcurrent

\* group.rs:70-73: find_bounds adds the parent-space bounds of the next child,
\* which calls bounds() when the child is a group
FindBoundsChild(t) ==
    /\ thCalls[t] # <<>>
    /\ Running(t).pc = "find_bounds"
    /\ Running(t).i <= Len(tree[Running(t).group].children)
    /\ LET child == tree[Running(t).group].children[Running(t).i]
       IN  IF IsGroup(tree, child)
           THEN thCalls' = [thCalls EXCEPT ![t] = Append(@, BoundsCall(child))]
           ELSE thCalls' = [thCalls EXCEPT
                              ![t][Len(thCalls[t])].i = @ + 1,
                              ![t][Len(thCalls[t])].result = BoxAdd(@, tree[child].box)]
    /\ UNCHANGED <<tree, thReturned>>
    /\ UNCHANGED otherThanConcurrent

\* group.rs:182-184: the box is stored under the write lock and returned
WriteCache(t) ==
    /\ thCalls[t] # <<>>
    /\ Running(t).pc = "find_bounds"
    /\ Running(t).i > Len(tree[Running(t).group].children)
    /\ tree' = [tree EXCEPT ![Running(t).group].cache = Some(Running(t).result)]
    /\ ReturnBox(t, Running(t).result)
    /\ UNCHANGED otherThanConcurrent

NextConcurrent ==
    \/ \E t \in BoundsThreads, g \in DOMAIN tree : ThreadCallsBounds(t, g)
    \/ \E t \in BoundsThreads : ReadCache(t)
    \/ \E t \in BoundsThreads : FindBoundsChild(t)
    \/ \E t \in BoundsThreads : WriteCache(t)

SpecConcurrent == InitConcurrent /\ [][NextConcurrent]_vars

(* C20: with the children fixed, any interleaving of concurrent bounds() calls
   returns the same box to every caller of a group and leaves the cache
   holding that box; a thread that found the cache empty overwrites it with a
   value equal to what any other thread wrote. *)
SameBoxReturned ==
    /\ \A t \in BoundsThreads :
          thReturned[t] # <<>> => tree[thReturned[t][1]].cache = <<thReturned[t][2]>>
    /\ \A t, u \in BoundsThreads :
          (thReturned[t] # <<>> /\ thReturned[u] # <<>> /\ thReturned[t][1] = thReturned[u][1])
              => thReturned[t][2] = thReturned[u][2]

C20_SameBox ==
    /\ []SameBoxReturned
    /\ [][\A g \in DOMAIN tree :
             tree[g].cache # <<>> => tree'[g].cache = tree[g].cache]_vars

\* a thread has returned the box of the root, the cache holds it, and another
\* thread that had found the cache empty is about to overwrite it
C20_Witness ==
    /\ tree # <<>>
    /\ \E t, u \in BoundsThreads :
          /\ thReturned[t] # <<>> /\ thReturned[t][1] = Root
          /\ tree[Root].cache # <<>>
          /\ Len(thCalls[u]) = 1
          /\ thCalls[u][1].group = Root
          /\ thCalls[u][1].pc = "find_bounds"
          /\ thCalls[u][1].i > Len(tree[Root].children)

(* C21: divide(threshold) on a group with fewer than threshold direct children
   leaves that group's child list as it is, but still calls divide(threshold)
   on every direct child, so that a nested group with at least threshold
   children is partitioned; divide on a primitive changes nothing. *)
C21_DivideTooFew ==
    [][DivideStep =>
          /\ \A g \in GroupsOf(nodes) :
                threshold' > Len(nodes[g].children) =>
                    /\ nodes'[g].children = nodes[g].children
                    /\ \A i \in DOMAIN nodes[g].children :
                          LET c == nodes[g].children[i]
                          IN  /\ nodes'[c].parent = g
                              /\ (IsGroup(nodes, c) /\ threshold' <= Len(nodes[c].children))
                                    => DivideEffect(nodes, nodes', c)
          /\ \A n \in LeavesOf(nodes) :
                [nodes'[n] EXCEPT !.parent = 0] = [nodes[n] EXCEPT !.parent = 0]]_vars

\* divide(2) has left the root its one child, a nested group, and has split the
\* two primitives of that group into two new subgroups
C21_Witness ==
    /\ divided
    /\ threshold = 2
    /\ Len(nodes[Root].children) = 1
    /\ LET nested == nodes[Root].children[1]
       IN  /\ IsGroup(nodes, nested)
           /\ Len(nodes[nested].children) = 2
           /\ \A i \in 1 .. 2 :
                 LET made == nodes[nested].children[i]
                 IN  IsGroup(nodes, made) /\ Len(nodes[made].children) = 1

(***************************************************************************)
(* The order of a Group's intersections: geometry/group.rs:126-147 over    *)
(* children that are cylinders, geometry/cylinder.rs:61-153.  Rays lie in  *)
(* the plane x = 0 and have whole coordinates, so that every time is a     *)
(* whole number of halves; times and heights are kept in halves.           *)
(***************************************************************************)
\* the rays cast: from above or level, towards the axis, along it or across
OrderRays ==
    {r \in [oy : {0, 3}, oz : {-2, 0}, dy : {-1, 0, 1}, dz : {0, 1, 2}] :
        r.dy # 0 \/ r.dz # 0}

\* cylinder.rs:41-60: Cylinder::new(.., minimum, maximum, closed)
Cylinders ==
    { [minimum |-> 1, maximum |-> 2, closed |-> TRUE],
      [minimum |-> -1, maximum |-> 1, closed |-> TRUE],
      [minimum |-> 1, maximum |-> 2, closed |-> FALSE] }

\* f64::sqrt of a square number
SqrtOf(n) == CHOOSE r \in 0 .. n : r * r = n

\* cylinder.rs:62-70: check_cap, for a time in halves
CylinderCheckCap(ray, t) ==
    LET z == 2 * ray.oz + t * ray.dz
    IN  z * z <= 4

\* cylinder.rs:72-95
CylinderIntersectCaps(cyl, ray, object) ==
    IF ~cyl.closed \/ Abs(ray.dy) * One < EPSILON THEN <<>>
    ELSE LET t0 == (2 * (cyl.minimum - ray.oy)) \div ray.dy
             t1 == (2 * (cyl.maximum - ray.oy)) \div ray.dy
         IN  (IF CylinderCheckCap(ray, t0) THEN <<[time |-> t0, object |-> object]>> ELSE <<>>)
             \o (IF CylinderCheckCap(ray, t1) THEN <<[time |-> t1, object |-> object]>>
                 ELSE <<>>)

\* cylinder.rs:103-153
CylinderLocalIntersect(cyl, ray, object) ==
    LET a == ray.dz * ray.dz
        b == 2 * ray.oz * ray.dz
        c == ray.oz * ray.oz - 1
        discriminant == b * b - 4 * a * c
    IN  IF a * One < EPSILON THEN CylinderIntersectCaps(cyl, ray, object)
        ELSE (IF discriminant >= 0
              THEN LET first == (-b - SqrtOf(discriminant)) \div a
                       second == (-b + SqrtOf(discriminant)) \div a
                       t0 == IF first > second THEN second ELSE first
                       t1 == IF first > second THEN first ELSE second
                       y0 == 2 * ray.oy + t0 * ray.dy
                       y1 == 2 * ray.oy + t1 * ray.dy
                   IN  (IF 2 * cyl.minimum < y0 /\ y0 < 2 * cyl.maximum
                        THEN <<[time |-> t0, object |-> object]>> ELSE <<>>)
                       \o (IF 2 * cyl.minimum < y1 /\ y1 < 2 * cyl.maximum
                           THEN <<[time |-> t1, object |-> object]>> ELSE <<>>)
              ELSE <<>>)
             \o CylinderIntersectCaps(cyl, ray, object)

InitOrder ==
    /\ IdleExceptOrder
    /\ goPc = "test"
    /\ goRay \in OrderRays
    /\ goChildren \in {<<>>} \cup {<<a>> : a \in Cylinders}
                        \cup {<<a, b>> : a, b \in Cylinders}
    /\ goBoxHit \in BOOLEAN
    /\ goI = 0
    /\ goResult = <<>>

\* group.rs:127 and 144-146: the box is missed
GroupBoxMissed ==
    /\ goPc = "test"
    /\ ~goBoxHit
    /\ goPc' = "done"
    /\ UNCHANGED <<goRay, goChildren, goBoxHit, goI, goResult>>
    /\ UNCHANGED otherThanOrder

\* group.rs:127-130
GroupBoxHit ==
    /\ goPc = "test"
    /\ goBoxHit
    /\ goPc' = "loop"
    /\ UNCHANGED <<goRay, goChildren, goBoxHit, goI, goResult>>
    /\ UNCHANGED otherThanOrder

\* group.rs:132-135
GroupIntersectChild ==
    /\ goPc = "loop"
    /\ goI < Len(goChildren)
    /\ goResult' = goResult \o CylinderLocalIntersect(goChildren[goI + 1], goRay, goI + 1)
    /\ goI' = goI + 1
    /\ UNCHANGED <<goPc, goRay, goChildren, goBoxHit>>
    /\ UNCHANGED otherThanOrder

\* group.rs:137-143: result.sort() when there is more than one child
GroupSortAndReturn ==
    /\ goPc = "loop"
    /\ goI = Len(goChildren)
    /\ goResult' = IF Len(goChildren) > 1 THEN SortBy(goResult) ELSE goResult
    /\ goPc' = "done"
    /\ UNCHANGED <<goRay, goChildren, goBoxHit, goI>>
    /\ UNCHANGED otherThanOrder

NextOrder ==
    \/ GroupBoxMissed
    \/ GroupBoxHit
    \/ GroupIntersectChild
    \/ GroupSortAndReturn

SpecOrder == InitOrder /\ [][NextOrder]_vars

(* C22: the list that intersect returns on a Group is in increasing time order
   for every number of children, also for a group of one child whose own list
   is not sorted (a capped cylinder appends cap hits after wall hits). *)
C22_GroupSorted ==
    (goPc = "done") =>
        \A j \in 1 .. Len(goResult) - 1 : goResult[j].time <= goResult[j + 1].time

(***************************************************************************)
(* The end caps of a cone: geometry/cone.rs:60-95.  Heights, coordinates   *)
(* and times are whole numbers of halves; a direction has whole parts.     *)
(***************************************************************************)
\* cone.rs:38-58: Cone::new(.., minimum, maximum, closed), heights in halves
Cones ==
    {c \in [minimum : {-4, -2, -1, 0, 1, 2, 4}, maximum : {-4, -2, -1, 0, 1, 2, 4},
            closed : BOOLEAN] : c.minimum < c.maximum}

ConeRays ==
    [ox : 0 .. 4, oy : {-6, 6}, oz : {0, 1}, dx : {0, 1}, dy : {-1, 0, 1}]

\* the point of the ray at a time, both in halves
ConeX(ray, t) == ray.ox + t * ray.dx
ConeZ(ray, t) == ray.oz

\* cone.rs:62-70: check_cap(ray, y, t); in halves x*x + z*z <= y reads
\* (x/2)^2 + (z/2)^2 <= y/2
ConeCheckCap(ray, y, t) ==
    ConeX(ray, t) * ConeX(ray, t) + ConeZ(ray, t) * ConeZ(ray, t) <= 2 * y

InitCone ==
    /\ IdleExceptCone
    /\ cnPc = "enter"
    /\ cnCone \in Cones
    /\ cnRay \in ConeRays
    /\ cnCaps = <<>>

\* cone.rs:76-78: the early return
CapsSkipped ==
    /\ cnPc = "enter"
    /\ ~cnCone.closed \/ Abs(cnRay.dy) * One < EPSILON
    /\ cnPc' = "done"
    /\ UNCHANGED <<cnCone, cnRay, cnCaps>>
    /\ UNCHANGED otherThanCone

\* cone.rs:76-80
CapsEntered ==
    /\ cnPc = "enter"
    /\ ~(~cnCone.closed \/ Abs(cnRay.dy) * One < EPSILON)
    /\ cnPc' = "lower"
    /\ UNCHANGED <<cnCone, cnRay, cnCaps>>
    /\ UNCHANGED otherThanCone

\* cone.rs:82-87: the plane y = minimum
LowerCap ==
    /\ cnPc = "lower"
    /\ LET t0 == (cnCone.minimum - cnRay.oy) \div cnRay.dy
       IN  cnCaps' = IF ConeCheckCap(cnRay, Abs(cnCone.minimum), t0)
                     THEN Append(cnCaps, t0) ELSE cnCaps
    /\ cnPc' = "upper"
    /\ UNCHANGED <<cnCone, cnRay>>
    /\ UNCHANGED otherThanCone

\* cone.rs:89-94: the plane y = maximum
UpperCap ==
    /\ cnPc = "upper"
    /\ LET t1 == (cnCone.maximum - cnRay.oy) \div cnRay.dy
       IN  cnCaps' = IF ConeCheckCap(cnRay, Abs(cnCone.maximum), t1)
                     THEN Append(cnCaps, t1) ELSE cnCaps
    /\ cnPc' = "done"
    /\ UNCHANGED <<cnCone, cnRay>>
    /\ UNCHANGED otherThanCone

NextCone ==
    \/ CapsSkipped
    \/ CapsEntered
    \/ LowerCap
    \/ UpperCap

SpecCone == InitCone /\ [][NextCone]_vars

\* the crossing of the plane at height y lies within distance |y| of the axis
WithinRadius(ray, y) ==
    LET t == (y - ray.oy) \div ray.dy
    IN  ConeX(ray, t) * ConeX(ray, t) + ConeZ(ray, t) * ConeZ(ray, t) <= y * y

(* C23: for a closed cone, the crossing of the cap plane y = minimum (or
   y = maximum) is accepted as a cap intersection exactly when the crossing
   point lies within distance |y| of the axis, x*x + z*z <= y*y, for every
   cap height y. *)
C23_CapWithinRadius ==
    [][/\ LowerCap => ((Len(cnCaps') > Len(cnCaps)) <=> WithinRadius(cnRay, cnCone.minimum))
       /\ UpperCap => ((Len(cnCaps') > Len(cnCaps)) <=> WithinRadius(cnRay, cnCone.maximum))]_vars

(***************************************************************************)
(* The objects of the intersections a composite returns:                   *)
(* geometry/group.rs:126-171, geometry/csg.rs:145-190,                     *)
(* scene/world.rs:70-82.                                                   *)
(***************************************************************************)
ReferencesLeaves(list) ==
    \A o \in DOMAIN list : list[o] > 0 => shapes[o].kind = "shape"

(* C24: every Intersection that intersect on a Group or CSG returns, at any
   nesting depth, references a leaf primitive and never the Group or CSG;
   so normal_at, which panics in a composite's local_normal_at, is never
   called on a composite. *)
C24_LeafReferences ==
    /\ \A s \in DOMAIN references : ReferencesLeaves(references[s])
    /\ \A c \in DOMAIN calls : ReferencesLeaves(calls[c].list)
    /\ normalAt # 0 => shapes[normalAt].kind = "shape"

\* a group has returned the intersections of a primitive two levels below it,
\* kept by the CSG between them, and normal_at is called on that primitive
C24_Witness ==
    /\ shapes # <<>>
    /\ shapes[1].kind = "group"
    /\ \E c \in ChildrenOf(1) :
          /\ shapes[c].kind = "csg"
          /\ \E o \in ChildrenOf(c) :
                /\ references[c][o] > 0
                /\ references[1][o] > 0
                /\ normalAt = o

(***************************************************************************)
(* Canvas::to_ppm: window/canvas.rs:30-114.  A colour component is an f64  *)
(* in thousandths (Inf and NaN as above); the output is the sequence of    *)
(* its characters.                                                         *)
(***************************************************************************)
\* the colours of a canvas: out of range on both sides, whole, between, NaN
PpmColors ==
    { <<1500, 1000, 0>>, <<-500, 0, 500>>, <<40, Inf, NaN>>, <<1000, 1000, 1000>> }

\* canvases painted with two colours in a chequer pattern
Grids ==
    { [y \in 1 .. h |-> [x \in 1 .. w |-> IF (x + y) % 2 = 0 THEN a ELSE b]] :
        w \in 0 .. MaxColumns, h \in 0 .. MaxRows, a \in PpmColors, b \in PpmColors }

NumRows(grid) == Len(grid)
NumColumns(grid) == IF grid = <<>> THEN 0 ELSE Len(grid[1])

DigitChars == <<"0", "1", "2", "3", "4", "5", "6", "7", "8", "9">>

\* format!("{}", n) of an unsigned number
RECURSIVE Format(_)
Format(n) == IF n < 10 THEN <<DigitChars[n + 1]>>
             ELSE Format(n \div 10) \o <<DigitChars[(n % 10) + 1]>>

ClampBelow(value) ==
    IF value = NaN \/ value < 0 THEN 0 ELSE (255 * value + 999) \div 1000

\* canvas.rs:38-48: 255.0 * value, cut at 255 and 0, else ceil() as u8; a NaN
\* passes both comparisons and the cast makes it 0
Clamp(value) ==
    IF value = NaN THEN 0
    ELSE IF 255 * value > 255000 THEN 255
    ELSE IF 255 * value < 0 THEN 0
    ELSE (255 * value + 999) \div 1000

\* canvas.rs:84-110: write_color_value on the pair of line length and output
WriteColorValue(value, w) ==
    LET s == Format(value)
        broken == IF w.len + (Len(s) + 1) >= 70
                  THEN [len |-> 0, out |-> Append(w.out, "\n")] ELSE w
        spaced == IF broken.len > 0
                  THEN [len |-> broken.len + 1, out |-> Append(broken.out, " ")]
                  ELSE broken
        written == [len |-> spaced.len + Len(s), out |-> spaced.out \o s]
    IN  IF written.len + 1 = 70
        THEN [len |-> 0, out |-> Append(written.out, "\n")] ELSE written

InitPpm ==
    /\ IdleExceptPpm
    /\ ppPc = "header"
    /\ ppGrid \in Grids
    /\ ppY = 0
    /\ ppX = 0
    /\ ppLineLen = 0
    /\ ppOutput = <<>>

\* canvas.rs:54-60
WriteHeader ==
    /\ ppPc = "header"
    /\ ppOutput' = <<"P", "3", "\n">> \o Format(NumColumns(ppGrid)) \o <<" ">>
                      \o Format(NumRows(ppGrid)) \o <<"\n", "2", "5", "5", "\n">>
    /\ ppPc' = "row"
    /\ UNCHANGED <<ppGrid, ppY, ppX, ppLineLen>>
    /\ UNCHANGED otherThanPpm

\* canvas.rs:62-63
RowStart ==
    /\ ppPc = "row"
    /\ ppY < NumRows(ppGrid)
    /\ ppLineLen' = 0
    /\ ppX' = 0
    /\ ppPc' = "pixel"
    /\ UNCHANGED <<ppGrid, ppY, ppOutput>>
    /\ UNCHANGED otherThanPpm

\* canvas.rs:65-73
WritePixelValues ==
    /\ ppPc = "pixel"
    /\ ppX < NumColumns(ppGrid)
    /\ LET color == ppGrid[ppY + 1][ppX + 1]
           red == WriteColorValue(Clamp(color[1]), [len |-> ppLineLen, out |-> ppOutput])
           green == WriteColorValue(Clamp(color[2]), red)
           blue == WriteColorValue(Clamp(color[3]), green)
       IN  /\ ppLineLen' = blue.len
           /\ ppOutput' = blue.out
    /\ ppX' = ppX + 1
    /\ UNCHANGED <<ppPc, ppGrid, ppY>>
    /\ UNCHANGED otherThanPpm

\* canvas.rs:75-79
RowEnd ==
    /\ ppPc = "pixel"
    /\ ppX = NumColumns(ppGrid)
    /\ ppOutput' = IF ppLineLen > 0 THEN Append(ppOutput, "\n") ELSE ppOutput
    /\ ppY' = ppY + 1
    /\ ppPc' = "row"
    /\ UNCHANGED <<ppGrid, ppX, ppLineLen>>
    /\ UNCHANGED otherThanPpm

\* canvas.rs:81
ReturnOutput ==
    /\ ppPc = "row"
    /\ ppY = NumRows(ppGrid)
    /\ ppPc' = "done"
    /\ UNCHANGED <<ppGrid, ppY, ppX, ppLineLen, ppOutput>>
    /\ UNCHANGED otherThanPpm

NextPpm ==
    \/ WriteHeader
    \/ RowStart
    \/ WritePixelValues
    \/ RowEnd
    \/ ReturnOutput

SpecPpm == InitPpm /\ [][NextPpm]_vars

\* the pieces of a text between the occurrences of a separator; a text that
\* ends with the separator has an empty last piece
SplitAt(text, separator) ==
    LET at == {i \in DOMAIN text : text[i] = separator}
        cut(k) == IF k = 0 THEN 0
                  ELSE IF k = Cardinality(at) + 1 THEN Len(text) + 1
                  ELSE CHOOSE i \in at : Cardinality({j \in at : j <= i}) = k
    IN  [k \in 1 .. Cardinality(at) + 1 |-> SubSeq(text, cut(k - 1) + 1, cut(k) - 1)]

\* the lines of pixel data: those after the three lines of the header and
\* before the end of the text
DataLines ==
    LET lines == SplitAt(ppOutput, "\n")
    IN  SubSeq(lines, 4, Len(lines) - 1)

IsNumber(word) ==
    /\ word # <<>>
    /\ \A i \in DOMAIN word : \E d \in DOMAIN DigitChars : word[i] = DigitChars[d]

\* the number a word of digits denotes
RECURSIVE NumberOf(_)
NumberOf(word) ==
    IF word = <<>> THEN 0
    ELSE 10 * NumberOf(SubSeq(word, 1, Len(word) - 1))
            + (CHOOSE d \in 0 .. 9 : DigitChars[d + 1] = word[Len(word)])

\* the numbers of the pixel data, in the order written
RECURSIVE WordsOf(_)
WordsOf(lines) ==
    IF lines = <<>> THEN <<>>
    ELSE SplitAt(Head(lines), " ") \o WordsOf(Tail(lines))

\* the components of the canvas in the order to_ppm visits them
RECURSIVE ComponentsOf(_)
ComponentsOf(grid) ==
    IF grid = <<>> THEN <<>>
    ELSE LET row == Head(grid)
             flat[x \in 0 .. Len(row)] == IF x = 0 THEN <<>> ELSE flat[x - 1] \o row[x]
         IN  flat[Len(row)] \o ComponentsOf(Tail(grid))

(* C25: to_ppm writes, for any canvas contents, every colour component as an
   integer in 0..255 (255 for a value above 1.0, 0 for one below 0.0), never
   splits a number across lines, emits no pixel-data line longer than 70
   characters and no empty line, and ends the output with a newline. *)
C25_PpmLines ==
    (ppPc = "done") =>
        LET lines == DataLines
            words == WordsOf(lines)
            components == ComponentsOf(ppGrid)
        IN  /\ ppOutput[Len(ppOutput)] = "\n"
            /\ \A l \in DOMAIN lines : Len(lines[l]) > 0 /\ Len(lines[l]) <= 70
            /\ Len(words) = Len(components)
            /\ \A i \in DOMAIN words :
                  /\ IsNumber(words[i])
                  /\ LET n == NumberOf(words[i])
                     IN  /\ n \in 0 .. 255
                         /\ words[i] = Format(n)
                         /\ (components[i] # NaN /\ components[i] > 1000) => n = 255
                         /\ (components[i] # NaN /\ components[i] < 0) => n = 0

\* a row has been written whose numbers fill a line to its last place, so
\* that the line was ended by write_color_value, with values cut at both ends
C25_Witness ==
    /\ ppPc = "done"
    /\ LET lines == DataLines
       IN  /\ \E l \in DOMAIN lines : Len(lines[l]) = 69
           /\ Len(lines) > NumRows(ppGrid)
    /\ \E y \in DOMAIN ppGrid : \E x \in DOMAIN ppGrid[y] :
          ppGrid[y][x][1] > 1000 /\ ppGrid[y][(x % Len(ppGrid[y])) + 1][1] < 0

(***************************************************************************)
(* divide keeps the shapes of the tree: geometry/group.rs:78-114, 189-209  *)
(***************************************************************************)
\* the primitives that can be reached from n
LeavesBelow(ns, n) == Reachable(ns, n) \cap LeavesOf(ns)

\* the places of the child lists that hold n
PlacesOf(ns, n) ==
    {<<g, i>> \in (DOMAIN ns) \X (1 .. Len(ns)) :
        i <= Len(ns[g].children) /\ ns[g].children[i] = n}

(* C26: divide(threshold), for any threshold and any tree of groups, neither
   loses nor duplicates shapes: the leaf primitives reachable from a group are
   the same before and after, every shape is in exactly one child list, and
   every shape moved into a new subgroup has that subgroup as its parent, the
   subgroup's own parent being the group that was divided. *)
C26_DivideKeepsShapes ==
    [][DivideStep =>
          /\ \A g \in GroupsOf(nodes) : LeavesBelow(nodes', g) = LeavesBelow(nodes, g)
          /\ \A n \in DOMAIN nodes' \ {Root} : Cardinality(PlacesOf(nodes', n)) = 1
          /\ PlacesOf(nodes', Root) = {}
          /\ \A s \in DOMAIN nodes' \ DOMAIN nodes :
                /\ IsGroup(nodes', s)
                /\ nodes'[s].children # <<>>
                /\ \A i \in DOMAIN nodes'[s].children :
                      nodes'[nodes'[s].children[i]].parent = s
                /\ nodes'[s].parent \in GroupsOf(nodes')
                /\ \E i \in DOMAIN nodes'[nodes'[s].parent].children :
                      nodes'[nodes'[s].parent].children[i] = s
                /\ LeavesBelow(nodes', s) \subseteq LeavesBelow(nodes', nodes'[s].parent)]_vars

\* the scene of build_world is divided into subgroups of subgroups
C26_Witness ==
    /\ divided
    /\ sceneKind = "build_world"
    /\ \E s \in GroupsOf(nodes) :
          /\ nodes[s].parent \notin {0, Root}
          /\ \E i \in DOMAIN nodes[s].children : ~IsGroup(nodes, nodes[s].children[i])

(***************************************************************************)
(* filter_intersections and the combined solid: geometry/csg.rs:87-137     *)
(***************************************************************************)
\* a point inside the left solid (inl) and the right one (inr) is in the
\* solid of the operation
InSolid(op, inl, inr) ==
    CASE op = "Union"        -> inl \/ inr
      [] op = "Intersection" -> inl /\ inr
      [] op = "Difference"   -> inl /\ ~inr

\* the positions of the input at which the ray enters or leaves the solid
Crossings ==
    {j \in DOMAIN csgXs :
        LET lhit == Includes(csgLeft, csgXs[j])
            inl == InsideBefore(j, TRUE)
            inr == InsideBefore(j, FALSE)
        IN  InSolid(csgOp, inl, inr)
                # InSolid(csgOp, IF lhit THEN ~inl ELSE inl, IF lhit THEN inr ELSE ~inr)}

\* the ray ends outside both subtrees: each was entered as often as left
EndsOutside ==
    /\ ~InsideBefore(Len(csgXs) + 1, TRUE)
    /\ ~InsideBefore(Len(csgXs) + 1, FALSE)

(* C27 as stated: for a time-sorted input in which the hits of each subtree
   alternate between entering and leaving, starting outside,
   filter_intersections keeps exactly the intersections at which membership
   in the combined solid changes, and hence the output has even length. *)
C27_KeepsCrossings ==
    (csgPc = "done") =>
        /\ {csgResult[k] : k \in DOMAIN csgResult} = Crossings
        /\ Len(csgResult) = Cardinality(Crossings)
        /\ Len(csgResult) % 2 = 0

(* C27 amended: filter_intersections keeps exactly the intersections at which
   membership in the combined solid changes; the output has even length when
   each subtree is hit an even number of times, the ray ending outside both. *)
C27_KeepsCrossingsEvenInput ==
    (csgPc = "done") =>
        /\ {csgResult[k] : k \in DOMAIN csgResult} = Crossings
        /\ Len(csgResult) = Cardinality(Crossings)
        /\ EndsOutside => Len(csgResult) % 2 = 0

\* an intersection of two overlapping solids has kept the two hits between
\* which the ray is inside both
C27_Witness ==
    /\ csgPc = "done" /\ csgOp = "Intersection" /\ csgLeft = 1
    /\ csgXs = <<1, 2, 1, 2>>
    /\ csgResult = <<2, 3>>
    /\ EndsOutside

(***************************************************************************)
(* shade_hit over the lights of the world: scene/world.rs:162-196          *)
(***************************************************************************)
RECURSIVE SumOf(_)
SumOf(colors) == IF colors = <<>> THEN 0 ELSE Head(colors) + SumOf(Tail(colors))

(* C28: the reflected and the refracted colour enter shade_hit's result once
   per shaded hit whatever the number of lights: with k lights the result is
   the sum over the lights of the direct surface colour plus one reflected
   and one refracted contribution, reflected_color and refracted_color being
   evaluated once per hit. *)
C28_ReflectedOnce ==
    (blPc = "done") =>
        /\ blResult = Unit * SumOf(blSurfaces)
                        + Contribution(blMat, blComps, 0, blReflected, blRefracted)
        /\ blCalls = 1

(***************************************************************************)
(* The coordinates the render workers send: lib.rs:92-126,                 *)
(* window/canvas.rs:12-24                                                  *)
(***************************************************************************)
(* C29: every message a render worker sends carries coordinates with
   x < width and y < height, for every width >= 1 and height >= 0, so that
   write_pixel returns no error and the aggregator's unwrap does not panic. *)
C29_CoordinatesInRange ==
    /\ \A i \in Threads : \A k \in DOMAIN chan[i] :
          chan[i][k].x < width /\ chan[i][k].y < height
    /\ \A i \in Threads : (i < spawned /\ wy[i] < height) => wx[i] < width
    /\ ~renderPanic

\* a worker has gone past the end of a row and sent the last pixel of the
\* image, while the aggregator has already written a pixel
C29_Witness ==
    /\ width >= 1 /\ height >= 2
    /\ received >= 1
    /\ ~renderPanic
    /\ \E i \in Threads :
          /\ chan[i] # <<>>
          /\ chan[i][Len(chan[i])].x = width - 1
          /\ chan[i][Len(chan[i])].y = height - 1

(***************************************************************************)
(* Camera::new, width() and height() and their use by render:              *)
(* scene/camera.rs:17-74, lib.rs:57-99, 118.                               *)
(***************************************************************************)
\* the sizes a camera is built with
CameraSizes == 1 .. 3

\* camera.rs:17-43
CameraNew(hsize, vsize) == [hsize |-> hsize, vsize |-> vsize]

\* camera.rs:68-70
CameraHeight(c) == c.hsize

\* camera.rs:72-74
CameraWidth(c) == c.vsize

InitCamera ==
    /\ IdleExceptCamera
    /\ camPc = "width"
    /\ \E hsize \in CameraSizes, vsize \in CameraSizes : camera = CameraNew(hsize, vsize)
    /\ camWidth = 0
    /\ camHeight = 0
    /\ camRays = {}
    /\ camCanvas = <<>>

\* lib.rs:80
RenderReadsWidth ==
    /\ camPc = "width"
    /\ camWidth' = CameraWidth(camera)
    /\ camPc' = "height"
    /\ UNCHANGED <<camera, camHeight, camRays, camCanvas>>
    /\ UNCHANGED otherThanCamera

\* lib.rs:81
RenderReadsHeight ==
    /\ camPc = "height"
    /\ camHeight' = CameraHeight(camera)
    /\ camPc' = "workers"
    /\ UNCHANGED <<camera, camWidth, camRays, camCanvas>>
    /\ UNCHANGED otherThanCamera

\* lib.rs:94-99: a worker asks for the ray of a pixel with x < width (x is
\* taken modulo width) and y < height (the loop's condition)
RayForPixel(px, py) ==
    /\ camPc = "workers"
    /\ px < camWidth
    /\ py < camHeight
    /\ camRays' = camRays \cup {<<px, py>>}
    /\ UNCHANGED <<camPc, camera, camWidth, camHeight, camCanvas>>
    /\ UNCHANGED otherThanCamera

\* lib.rs:118: Canvas::new(camera.width(), camera.height())
CanvasNew ==
    /\ camPc = "workers"
    /\ camCanvas' = <<CameraWidth(camera), CameraHeight(camera)>>
    /\ camPc' = "done"
    /\ UNCHANGED <<camera, camWidth, camHeight, camRays>>
    /\ UNCHANGED otherThanCamera

NextCamera ==
    \/ RenderReadsWidth
    \/ RenderReadsHeight
    \/ \E px \in 0 .. 3, py \in 0 .. 3 : RayForPixel(px, py)
    \/ CanvasNew

SpecCamera == InitCamera /\ [][NextCamera]_vars

(* C30: for a camera built with Camera::new(hsize, vsize, ..), width()
   returns hsize and height() returns vsize, so that render asks
   ray_for_pixel(px, py) only for px < hsize and py < vsize and writes a
   canvas of hsize columns by vsize rows. *)
C30_WidthIsHsize ==
    /\ camPc \in {"height", "workers", "done"} => camWidth = camera.hsize
    /\ camPc \in {"workers", "done"} => camHeight = camera.vsize
    /\ \A p \in camRays : p[1] < camera.hsize /\ p[2] < camera.vsize
    /\ camCanvas # <<>> => camCanvas = <<camera.hsize, camera.vsize>>

====
